---- MODULE Spec2Model ----
(***************************************************************************)
(* Model of the trading decision-and-execution engine of tk_traiding:      *)
(* the scheduler loop (app/utils.py), the retry wrapper (app/utils.py),    *)
(* the decision cycle (main.py) and the broker facade TkBroker             *)
(* (app/tinkoff_service.py).                                               *)
(*                                                                         *)
(* Units.  Money and prices are integers in 1/100 of the currency unit     *)
(* (100.00 is 10000).  Percentages are integers in 1/100 of a percent      *)
(* (2% is 200, 0.01% is 1), so the fraction p/100 of the code is           *)
(* pct/10000 here.                                                         *)
(*                                                                         *)
(* A signal is the record [ticker, action] that main.py reads              *)
(* (current_stock_action.ticker / .action) and that every strategy builds. *)
(***************************************************************************)
EXTENDS Integers, Sequences, FiniteSets, TLC

\* ---------------------------------------------------------------- bounds
MaxStocks == 2          \* longest configured ticker list
MaxFails  == 2          \* most consecutive exceptions of one wrapped call
MaxAttempts == 3        \* most signals chosen in one decision cycle

\* ------------------------------------------------------- program constants
BUY  == "BUY"
SELL == "SELL"
FirstWeekendDay == 5    \* weekday() < 5
OpenHour  == 7          \* 7 <= hour
CloseHour == 23         \* hour < 23
SafetyNum == 101        \* Decimal(1.01), as the fraction 101/100
SafetyDen == 100
ShortFactor == 2        \* shorts_money * 2
PctDen == 10000         \* percent / 100, with percent in 1/100 %

NoValue == "None"

\* No wrapped call in progress, and no wrapped call just ended.
CallReset == [tries |-> 0, fails |-> 0, args |-> {}]
NoCall    == [fn |-> NoValue, tries |-> 0, fails |-> 0, args |-> {},
              ended |-> NoValue, result |-> NoValue, value |-> NoValue]

\* ------------------------------------------------------------ input domains
Tickers  == {"SBER", "GAZP", "XXXX"}
Weekdays == {4, 5}
Hours    == {6, 7, 22, 23}
Times    == [weekday : Weekdays, hour : Hours]
NoTime   == [weekday |-> -1, hour |-> -1]   \* no clock reading in hand
Prices   == {10000, 10002}
Percents == {1, 100, 200}
\* (profit_percent, stopp_loss_percent) of the settings
PercentPairs == {<<1, 1>>, <<200, 100>>}
CashSets == {<<>>, <<10100>>, <<10101>>, <<20300>>}

CatalogA ==
    << [ticker |-> "SBER", figi |-> "BBG1", lot |-> 1, min_price_increment |-> 5,
        buy_available_flag |-> TRUE, short_enabled_flag |-> TRUE],
       [ticker |-> "GAZP", figi |-> "BBG2", lot |-> 2, min_price_increment |-> 1,
        buy_available_flag |-> TRUE, short_enabled_flag |-> FALSE],
       [ticker |-> "SBER", figi |-> "BBG3", lot |-> 1, min_price_increment |-> 1,
        buy_available_flag |-> FALSE, short_enabled_flag |-> FALSE] >>

CatalogB ==
    << [ticker |-> "GAZP", figi |-> "BBG2", lot |-> 1, min_price_increment |-> 0,
        buy_available_flag |-> TRUE, short_enabled_flag |-> TRUE],
       [ticker |-> "SBER", figi |-> "BBG4", lot |-> 1, min_price_increment |-> 200,
        buy_available_flag |-> TRUE, short_enabled_flag |-> TRUE] >>

Catalogs == {CatalogA, CatalogB}

RECURSIVE SeqsUpTo(_, _)
SeqsUpTo(S, n) ==
    IF n = 0 THEN {<<>>}
    ELSE LET shorter == SeqsUpTo(S, n - 1)
         IN  shorter \cup {Append(s, x) : s \in {t \in shorter : Len(t) = n - 1}, x \in S}

\* =================================================================== state
VARIABLES
    now,                 \* datetime.datetime.now() inside is_trading_time
    pc,                  \* position of the single thread of control
    stocks,              \* StrategySettings.stocks
    profit_percent,      \* StrategySettings.profit_percent
    stopp_loss_percent,  \* StrategySettings.stopp_loss_percent
    instruments_cache,   \* lru_cache of get_instruments_df for the token
    shares_df,           \* TkBroker.shares_df
    money,               \* brokerage: PositionsResponse.money
    portfolio,           \* brokerage: PortfolioResponse.positions
    validated_tickers,   \* main: validated_tickers
    stock_actions,       \* main: stock_actions
    cur,                 \* main: current_stock_action
    figi,                \* post_*_position: figi
    last_price_for_lot,  \* post_*_position: last_price_for_lot
    cash,                \* free_money_for_trading: money
    free_money,          \* value of self.free_money_for_trading at the check
    current_price,       \* post_*_position: current_price
    call,                \* the wrapped call in progress: invocations so far
    lastCall,            \* the wrapped call that ended in the latest step:
                         \* what func gave (result), what the wrapper gave
                         \* (value)
    sent,                \* requests the brokerage accepted in this cycle
    attempts,            \* signals chosen in this cycle
    lastExit,            \* how the latest decision cycle ended
    err,                 \* main: the exception bound by `except Exception as err`
    slept,               \* seconds of the time.sleep call just made, 0 otherwise
    run                  \* a get_stock_actions call of a strategy object, as
                         \* observed from outside: its argument, what it read
                         \* and what it returned

config  == <<stocks, profit_percent, stopp_loss_percent>>
catalog == <<instruments_cache, shares_df>>
account == <<money, portfolio>>
locals  == <<validated_tickers, stock_actions, cur, figi, last_price_for_lot,
             cash, free_money, current_price>>
history == <<sent, attempts, lastExit, err>>
main_vars == <<now, slept, pc, config, catalog, account, locals, call, lastCall, history>>
vars    == <<main_vars, run>>

\* ========================================================== pure functions

\* is_trading_time with the closing hour taken as still open.
is_trading_time_closing_hour(t) ==
    LET is_weekday      == t.weekday < FirstWeekendDay
        is_within_hours == OpenHour <= t.hour /\ t.hour <= CloseHour
    IN  is_weekday /\ is_within_hours

\* utils.is_trading_time
is_trading_time(t) ==
    LET is_weekday      == t.weekday < FirstWeekendDay
        is_within_hours == OpenHour <= t.hour /\ t.hour < CloseHour
    IN  is_weekday /\ is_within_hours

\* The wrapper swallowing the exception and returning None.
connection_problems_decorator_returns_none(outcome) ==
    IF outcome.raised
    THEN [kind |-> "return", value |-> NoValue]
    ELSE [kind |-> "return", value |-> outcome.value]

\* The wrapper giving up: an exception of func is re-raised to the caller.
connection_problems_decorator_reraise(outcome) ==
    IF outcome.raised
    THEN [kind |-> "raise", value |-> NoValue]
    ELSE [kind |-> "return", value |-> outcome.value]

\* utils.connection_problems_decorator.wrapper, one pass of its `while True`
\* for one outcome of func(*args, **kwargs): an exception is printed and the
\* loop continues, a value is returned.
connection_problems_decorator(outcome) ==
    IF outcome.raised
    THEN [kind |-> "continue", value |-> NoValue]
    ELSE [kind |-> "return", value |-> outcome.value]

\* self.shares_df[self.shares_df[column] == key]
RowsWhereTicker(df, ticker) == SelectSeq(df, LAMBDA row : row.ticker = ticker)
RowsWhereFigi(df, f)        == SelectSeq(df, LAMBDA row : row.figi = f)

\* get_figi_by_ticker without the emptiness test: an absent ticker yields no
\* error.
get_figi_by_ticker_unchecked(df, ticker) ==
    IF RowsWhereTicker(df, ticker) = <<>>
    THEN [raised |-> FALSE, value |-> NoValue]
    ELSE [raised |-> FALSE, value |-> RowsWhereTicker(df, ticker)[1].figi]

\* TkBroker.get_figi_by_ticker: TickerNotExists when no row matches,
\* otherwise the figi of the first matching row (.iloc[0]).
get_figi_by_ticker(df, ticker) ==
    IF RowsWhereTicker(df, ticker) = <<>>
    THEN [raised |-> TRUE,  value |-> "TickerNotExists"]
    ELSE [raised |-> FALSE, value |-> RowsWhereTicker(df, ticker)[1].figi]

\* validate_tickers inserting at the front instead of appending.
RECURSIVE validate_loop_prepend(_, _, _)
validate_loop_prepend(df, stock_tickers, validated) ==
    IF stock_tickers = <<>> THEN validated
    ELSE LET ticker == Head(stock_tickers)
         IN  IF RowsWhereTicker(df, ticker) = <<>>
             THEN validate_loop_prepend(df, Tail(stock_tickers), validated)
             ELSE validate_loop_prepend(df, Tail(stock_tickers),
                                        <<ticker>> \o validated)

\* TkBroker.validate_tickers: the for loop, one ticker per step.
RECURSIVE validate_loop(_, _, _)
validate_loop(df, stock_tickers, validated) ==
    IF stock_tickers = <<>> THEN validated
    ELSE LET ticker == Head(stock_tickers)
         IN  IF get_figi_by_ticker(df, ticker).raised
             THEN validate_loop(df, Tail(stock_tickers), validated)
             ELSE validate_loop(df, Tail(stock_tickers), Append(validated, ticker))

validate_tickers(df, stock_tickers) == validate_loop(df, stock_tickers, <<>>)

\* The loop adding up every position, long ones too.
RECURSIVE shorts_money_every_position(_)
shorts_money_every_position(positions) ==
    IF positions = <<>> THEN 0
    ELSE LET portfolio_position == Head(positions)
         IN  portfolio_position.current_price * portfolio_position.quantity
                + shorts_money_every_position(Tail(positions))

\* free_money_for_trading: the loop over portfolio.positions.
RECURSIVE shorts_money(_)
shorts_money(positions) ==
    IF positions = <<>> THEN 0
    ELSE LET portfolio_position == Head(positions)
         IN  (IF portfolio_position.quantity < 0
              THEN portfolio_position.current_price * portfolio_position.quantity
              ELSE 0) + shorts_money(Tail(positions))

\* free_money_for_trading taking a missing cash entry for an open credit.
free_money_for_trading_open_credit(positions_money, portfolio_positions) ==
    IF positions_money = <<>> THEN 1000000
    ELSE positions_money[1] + shorts_money(portfolio_positions) * ShortFactor

\* free_money_for_trading with the short adjustment subtracted.
free_money_for_trading_minus(positions_money, portfolio_positions) ==
    IF positions_money = <<>> THEN 0
    ELSE positions_money[1] - shorts_money(portfolio_positions) * ShortFactor

\* TkBroker.free_money_for_trading, from the two responses it fetches.
free_money_for_trading(positions_money, portfolio_positions) ==
    IF positions_money = <<>> THEN 0
    ELSE positions_money[1] + shorts_money(portfolio_positions) * ShortFactor

\* TkBroker.get_last_price_for_lot: last_price * Decimal(int(lot))
get_last_price_for_lot(df, f, last_price) ==
    last_price * RowsWhereFigi(df, f)[1].lot

\* The capital check with a strict comparison.
NotEnoughMoney_strict(free, price_for_lot) ==
    free * SafetyDen < price_for_lot * SafetyNum

\* `self.free_money_for_trading <= (last_price_for_lot * Decimal(1.01))`.
\* Decimal(1.01) is the binary double, 1.01 + 8.9e-18; for amounts on the
\* 1/100 grid the excess is below the grid and the comparison is the one with
\* 101/100.
NotEnoughMoney(free, price_for_lot) ==
    free * SafetyDen <= price_for_lot * SafetyNum

\* Sign of Decimal(percent / 100) - percent/100 for the percentages in use
\* (the float quotient of 0.01, 1 and 2 by 100 lies above the exact value;
\* 25/100 is exact).
FloatNoise(pct) == IF pct = 2500 THEN 0 ELSE 1

\* round(Decimal) of n/d, d > 0: to nearest, ties to even; an exact tie of the
\* rational value is decided by the sign of the float noise when there is any.
RoundTiesEven(n, d, noise) ==
    LET q == n \div d
        r == n % d
    IN  IF 2 * r < d THEN q
        ELSE IF 2 * r > d THEN q + 1
        ELSE IF noise > 0 THEN q + 1
        ELSE IF noise < 0 THEN q
        ELSE IF q % 2 = 0 THEN q ELSE q + 1

\* The quantization to the hundredth of the currency unit, whatever the
\* increment.
quantize_to_hundredths(num, min_price_increment, noise) ==
    IF min_price_increment = 0
    THEN [raised |-> TRUE, value |-> "DivisionByZero"]
    ELSE [raised |-> FALSE, value |-> RoundTiesEven(num, PctDen, noise)]

\* The quantization leaving its result in ticks: the product by the increment
\* is missing.
quantize_in_ticks(num, min_price_increment, noise) ==
    IF min_price_increment = 0
    THEN [raised |-> TRUE, value |-> "DivisionByZero"]
    ELSE [raised |-> FALSE,
          value  |-> RoundTiesEven(num, PctDen * min_price_increment, noise)]

\* Decimal(round(price / min_price_increment) * min_price_increment), with
\* price given as num / PctDen; division by a zero increment raises.
quantize(num, min_price_increment, noise) ==
    IF min_price_increment = 0
    THEN [raised |-> TRUE, value |-> "DivisionByZero"]
    ELSE [raised |-> FALSE,
          value  |-> RoundTiesEven(num, PctDen * min_price_increment, noise)
                       * min_price_increment]

\* post_long_position: current_price + current_price * Decimal(tp / 100), etc.
\* Each is the numerator of the price over PctDen.
long_take_profit_price(cp, pct)  == cp * PctDen + cp * pct
long_stop_loss_price(cp, pct)    == cp * PctDen - cp * pct
short_take_profit_price(cp, pct) == cp * PctDen - cp * pct
short_stop_loss_price(cp, pct)   == cp * PctDen + cp * pct

min_price_increment_of(df, f) == RowsWhereFigi(df, f)[1].min_price_increment

\* What an ABCRecommendationSystem.get_stock_actions may return for a ticker
\* list: per ticker, in order, no signal, BUY or SELL.
RECURSIVE get_stock_actions(_)
get_stock_actions(tickers) ==
    IF tickers = <<>> THEN {<<>>}
    ELSE LET rest == get_stock_actions(Tail(tickers))
         IN  rest \cup {<<[ticker |-> Head(tickers), action |-> a]>> \o r :
                            a \in {BUY, SELL}, r \in rest}

\* list.remove(x): drops the first element equal to x.
RECURSIVE remove(_, _)
remove(list, x) ==
    IF list = <<>> THEN <<>>
    ELSE IF Head(list) = x THEN Tail(list)
    ELSE <<Head(list)>> \o remove(Tail(list), x)

\* ------------------------------------------------------------- brokerage
\* Quantity held of an instrument (0 when it has no portfolio position).
RECURSIVE quantity_of(_, _)
quantity_of(positions, f) ==
    IF positions = <<>> THEN 0
    ELSE IF Head(positions).figi = f THEN Head(positions).quantity
    ELSE quantity_of(Tail(positions), f)

\* The portfolio after `delta` units of f traded at price.
RECURSIVE trade(_, _, _, _)
trade(positions, f, delta, price) ==
    IF positions = <<>>
    THEN <<[figi |-> f, quantity |-> delta, current_price |-> price]>>
    ELSE IF Head(positions).figi = f
    THEN <<[figi |-> f, quantity |-> Head(positions).quantity + delta,
            current_price |-> price]>> \o Tail(positions)
    ELSE <<Head(positions)>> \o trade(Tail(positions), f, delta, price)

\* The brokerage refuses a market order whose side is not available for the
\* instrument: buying when buy_available_flag is off, selling into a short
\* when short_enabled_flag is off.
side_available(df, positions, f, direction) ==
    LET row == RowsWhereFigi(df, f)[1]
    IN  IF direction = BUY THEN row.buy_available_flag
        ELSE row.short_enabled_flag \/ quantity_of(positions, f) - row.lot >= 0

\* The price at which the brokerage fills a market order of an instrument.
execution_price(f) == IF f = "BBG2" THEN 10002 ELSE 10000

\* ------------------------------------------------------------- strategies
UPTREND     == "UPTREND"
DOWNTREND   == "DOWNTREND"
\* What TkBroker.get_trend_by_ticker may answer.
TrendClasses == {UPTREND, DOWNTREND, "FLAT"}
Overbought  == 70       \* analysis.indicators["RSI"] > 70
Oversold    == 30       \* analysis.indicators["RSI"] < 30
RSIValues   == {29, 30, 70, 71}

\* A signal built for the first listed share whatever the ticker handled.
StockAction_first_share(ticker, action) == [ticker |-> "SBER", action |-> action]

\* StockAction(ticker=..., action=...)
StockAction(ticker, action) == [ticker |-> ticker, action |-> action]

\* The sequences over S of length n: one reading per pass of a for loop.
Readings(S, n) == {s \in SeqsUpTo(S, n) : Len(s) = n}

\* The RSI loop with inclusive thresholds.
RECURSIVE rsi_loop_inclusive(_, _, _)
rsi_loop_inclusive(stocks_arg, indicators, actions) ==
    IF stocks_arg = <<>> THEN actions
    ELSE LET ticker == Head(stocks_arg)
             rsi    == Head(indicators)
             sold   == IF rsi >= Overbought
                       THEN Append(actions, StockAction(ticker, SELL)) ELSE actions
             bought == IF rsi <= Oversold
                       THEN Append(sold, StockAction(ticker, BUY)) ELSE sold
         IN  rsi_loop_inclusive(Tail(stocks_arg), Tail(indicators), bought)

\* The RSI loop inserting each signal at the front of the list.
RECURSIVE rsi_loop_prepend(_, _, _)
rsi_loop_prepend(stocks_arg, indicators, actions) ==
    IF stocks_arg = <<>> THEN actions
    ELSE LET ticker == Head(stocks_arg)
             rsi    == Head(indicators)
             sold   == IF rsi > Overbought
                       THEN <<StockAction(ticker, SELL)>> \o actions ELSE actions
             bought == IF rsi < Oversold
                       THEN <<StockAction(ticker, BUY)>> \o sold ELSE sold
         IN  rsi_loop_prepend(Tail(stocks_arg), Tail(indicators), bought)

\* RSIRecommendationSystem.get_stock_actions: the for loop; indicators[i] is
\* the RSI read for the i-th ticker.
RECURSIVE rsi_loop(_, _, _)
rsi_loop(stocks_arg, indicators, actions) ==
    IF stocks_arg = <<>> THEN actions
    ELSE LET ticker == Head(stocks_arg)
             rsi    == Head(indicators)
             sold   == IF rsi > Overbought
                       THEN Append(actions, StockAction(ticker, SELL)) ELSE actions
             bought == IF rsi < Oversold
                       THEN Append(sold, StockAction(ticker, BUY)) ELSE sold
         IN  rsi_loop(Tail(stocks_arg), Tail(indicators), bought)

\* RandomRecommendationSystem.get_stock_actions: the for loop; choices[i] is
\* random.choice((BUY, SELL)) of the i-th pass.
RECURSIVE random_loop(_, _, _)
random_loop(stocks_arg, choices, actions) ==
    IF stocks_arg = <<>> THEN actions
    ELSE random_loop(Tail(stocks_arg), Tail(choices),
                     Append(actions, StockAction(Head(stocks_arg), Head(choices))))

\* The trend filter testing the trend alone: any signal of a trending ticker
\* is kept.
RECURSIVE only_by_trend_loop_any_action(_, _, _)
only_by_trend_loop_any_action(inner_actions, trends, only_by_trend_actions) ==
    IF inner_actions = <<>> THEN only_by_trend_actions
    ELSE LET stock_action == Head(inner_actions)
             trend        == Head(trends)
         IN  only_by_trend_loop_any_action(Tail(inner_actions), Tail(trends),
                IF trend = DOWNTREND
                THEN Append(only_by_trend_actions, stock_action)
                ELSE IF trend = UPTREND
                THEN Append(only_by_trend_actions, stock_action)
                ELSE only_by_trend_actions)

\* The trend filter inserting each kept signal at the front of its list.
RECURSIVE only_by_trend_loop_prepend(_, _, _)
only_by_trend_loop_prepend(inner_actions, trends, only_by_trend_actions) ==
    IF inner_actions = <<>> THEN only_by_trend_actions
    ELSE LET stock_action == Head(inner_actions)
             trend        == Head(trends)
         IN  only_by_trend_loop_prepend(Tail(inner_actions), Tail(trends),
                IF trend = DOWNTREND /\ stock_action.action = SELL
                THEN <<stock_action>> \o only_by_trend_actions
                ELSE IF trend = UPTREND /\ stock_action.action = BUY
                THEN <<stock_action>> \o only_by_trend_actions
                ELSE only_by_trend_actions)

\* OnlyByTrendRecommendationSystem.get_stock_actions: the for loop over the
\* inner strategy's signals; trends[i] is get_trend_by_ticker of the i-th.
RECURSIVE only_by_trend_loop(_, _, _)
only_by_trend_loop(inner_actions, trends, only_by_trend_actions) ==
    IF inner_actions = <<>> THEN only_by_trend_actions
    ELSE LET stock_action == Head(inner_actions)
             trend        == Head(trends)
         IN  only_by_trend_loop(Tail(inner_actions), Tail(trends),
                IF trend = DOWNTREND /\ stock_action.action = SELL
                THEN Append(only_by_trend_actions, stock_action)
                ELSE IF trend = UPTREND /\ stock_action.action = BUY
                THEN Append(only_by_trend_actions, stock_action)
                ELSE only_by_trend_actions)

\* joblib.load of the files of one ticker and the model's last prediction:
\* MissingFile when DATA/<ticker>_logistic_scaler.pkl is not there.
MissingFile == "missing"
Predictions == {BUY, SELL, "HOLD"}
ModelReadings == Predictions \cup {MissingFile}

\* LogisticModelRecommendationSystem.get_stock_actions: the for loop;
\* predicts[i] is what the i-th pass reads.  joblib.load raises
\* FileNotFoundError for a missing file and nothing in the loop catches it.
RECURSIVE logistic_loop(_, _, _)
logistic_loop(stocks_arg, predicts, actions) ==
    IF stocks_arg = <<>> THEN [raised |-> FALSE, value |-> actions]
    ELSE LET ticker  == Head(stocks_arg)
             predict == Head(predicts)
             bought  == IF predict = BUY
                        THEN Append(actions, StockAction(ticker, BUY)) ELSE actions
             sold    == IF predict = SELL
                        THEN Append(bought, StockAction(ticker, SELL)) ELSE bought
         IN  IF predict = MissingFile
             THEN [raised |-> TRUE, value |-> "FileNotFoundError"]
             ELSE logistic_loop(Tail(stocks_arg), Tail(predicts), sold)

\* Series.iloc[k] for a negative k: the k-th sample from the end, IndexError
\* when the series is shorter.
iloc(series, k) ==
    IF Len(series) + k + 1 \in 1..Len(series)
    THEN [raised |-> FALSE, value |-> series[Len(series) + k + 1]]
    ELSE [raised |-> TRUE, value |-> "IndexError"]

\* The samples a crossover test looks at: iloc[-1] and iloc[-2].
TwoSamples == 2

\* Rows of get_ema_by_ticker's frame: the short average below, on and above
\* the long one.
EmaRows == {[ema_short |-> s, ema_long |-> 1] : s \in 0..2}
EmaFrames == SeqsUpTo(EmaRows, TwoSamples)

\* The crossover tests asking for the opposite strict order at the previous
\* sample.
moving_average_pass_strict(ema_data) ==
    LET last == iloc(ema_data, -1)
        prev == iloc(ema_data, -2)
    IN  IF last.raised THEN last
        ELSE IF last.value.ema_short > last.value.ema_long
        THEN IF prev.raised THEN prev
             ELSE [raised |-> FALSE,
                   value |-> IF prev.value.ema_short < prev.value.ema_long
                             THEN <<BUY>> ELSE <<>>]
        ELSE IF last.value.ema_short < last.value.ema_long
        THEN IF prev.raised THEN prev
             ELSE [raised |-> FALSE,
                   value |-> IF prev.value.ema_short > prev.value.ema_long
                             THEN <<SELL>> ELSE <<>>]
        ELSE [raised |-> FALSE, value |-> <<>>]

\* The two crossover tests of one pass, each `a and b` evaluated left to
\* right: iloc[-2] is read only when the test on iloc[-1] is true.
moving_average_pass(ema_data) ==
    LET last == iloc(ema_data, -1)
        prev == iloc(ema_data, -2)
    IN  IF last.raised THEN last
        ELSE IF last.value.ema_short > last.value.ema_long
        THEN IF prev.raised THEN prev
             ELSE [raised |-> FALSE,
                   value |-> IF prev.value.ema_short <= prev.value.ema_long
                             THEN <<BUY>> ELSE <<>>]
        ELSE IF last.value.ema_short < last.value.ema_long
        THEN IF prev.raised THEN prev
             ELSE [raised |-> FALSE,
                   value |-> IF prev.value.ema_short >= prev.value.ema_long
                             THEN <<SELL>> ELSE <<>>]
        ELSE [raised |-> FALSE, value |-> <<>>]

\* MovingAverageRecommendationSystem.get_stock_actions: the for loop;
\* frames[i] is get_ema_by_ticker of the i-th ticker.
RECURSIVE moving_average_loop(_, _, _)
moving_average_loop(stocks_arg, frames, actions) ==
    IF stocks_arg = <<>> THEN [raised |-> FALSE, value |-> actions]
    ELSE LET stock == Head(stocks_arg)
             pass  == moving_average_pass(Head(frames))
         IN  IF pass.raised THEN pass
             ELSE moving_average_loop(Tail(stocks_arg), Tail(frames),
                     IF pass.value = <<>> THEN actions
                     ELSE Append(actions, StockAction(stock, pass.value[1])))

\* Rows of get_stochastic_rsi_by_ticker's frame, in tenths.
OversoldK   == 2        \* k_curr < 0.2
OverboughtK == 8        \* k_curr > 0.8
StochRows == {[stoch_rsi_k |-> 1, stoch_rsi_d |-> 0],
              [stoch_rsi_k |-> 1, stoch_rsi_d |-> 5],
              [stoch_rsi_k |-> 9, stoch_rsi_d |-> 5],
              [stoch_rsi_k |-> 9, stoch_rsi_d |-> 10]}
StochFrames == SeqsUpTo(StochRows, TwoSamples)

\* One pass of the stochastic RSI loop: the four reads, then the if / elif.
stochastic_rsi_pass(stochastic_rsi_df) ==
    LET prev == iloc(stochastic_rsi_df, -2)
        curr == iloc(stochastic_rsi_df, -1)
    IN  IF prev.raised THEN prev
        ELSE IF curr.raised THEN curr
        ELSE LET k_prev == prev.value.stoch_rsi_k
                 d_prev == prev.value.stoch_rsi_d
                 k_curr == curr.value.stoch_rsi_k
                 d_curr == curr.value.stoch_rsi_d
             IN  [raised |-> FALSE,
                  value |-> IF k_prev < d_prev /\ k_curr > d_curr
                               /\ k_curr < OversoldK
                            THEN <<BUY>>
                            ELSE IF k_prev > d_prev /\ k_curr < d_curr
                                    /\ k_curr > OverboughtK
                            THEN <<SELL>>
                            ELSE <<>>]

\* StochasticRSIRecommendationSystem.get_stock_actions: the for loop.
RECURSIVE stochastic_rsi_loop(_, _, _)
stochastic_rsi_loop(stocks_arg, frames, actions) ==
    IF stocks_arg = <<>> THEN [raised |-> FALSE, value |-> actions]
    ELSE LET ticker == Head(stocks_arg)
             pass   == stochastic_rsi_pass(Head(frames))
         IN  IF pass.raised THEN pass
             ELSE stochastic_rsi_loop(Tail(stocks_arg), Tail(frames),
                     IF pass.value = <<>> THEN actions
                     ELSE Append(actions, StockAction(ticker, pass.value[1])))

\* tradingview_ta.Recommendation
Recommendations == {"BUY", "STRONG_BUY", "SELL", "STRONG_SELL", "NEUTRAL", "ERROR"}

\* The TradingView loop taking only the plain recommendations.
RECURSIVE trading_view_loop_plain_only(_, _, _)
trading_view_loop_plain_only(stocks_arg, summaries, actions) ==
    IF stocks_arg = <<>> THEN actions
    ELSE LET ticker         == Head(stocks_arg)
             recommendation == Head(summaries)
         IN  trading_view_loop_plain_only(Tail(stocks_arg), Tail(summaries),
                IF recommendation \in {"NEUTRAL", "ERROR"} THEN actions
                ELSE IF recommendation \in {"BUY"}
                THEN Append(actions, StockAction(ticker, "BUY"))
                ELSE IF recommendation \in {"SELL"}
                THEN Append(actions, StockAction(ticker, "SELL"))
                ELSE actions)

\* TradingViewRecommendationSystem.get_stock_actions: the for loop;
\* summaries[i] is summary["RECOMMENDATION"] of the i-th ticker.
RECURSIVE trading_view_loop(_, _, _)
trading_view_loop(stocks_arg, summaries, actions) ==
    IF stocks_arg = <<>> THEN actions
    ELSE LET ticker         == Head(stocks_arg)
             recommendation == Head(summaries)
         IN  trading_view_loop(Tail(stocks_arg), Tail(summaries),
                IF recommendation \in {"NEUTRAL", "ERROR"} THEN actions
                ELSE IF recommendation \in {"BUY", "STRONG_BUY"}
                THEN Append(actions, StockAction(ticker, "BUY"))
                ELSE IF recommendation \in {"SELL", "STRONG_SELL"}
                THEN Append(actions, StockAction(ticker, "SELL"))
                ELSE actions)

\* No strategy call is under observation.  `out` is the list returned,
\* `raised` the exception that left the call instead.
NoRun == [system |-> NoValue, stocks |-> <<>>, readings |-> <<>>,
          inner |-> <<>>, trends |-> <<>>, out |-> <<>>, raised |-> NoValue]

\* ================================================================ actions
NoLocals ==
    /\ validated_tickers' = <<>>
    /\ stock_actions' = <<>>
    /\ cur' = [ticker |-> NoValue, action |-> NoValue]
    /\ figi' = NoValue
    /\ last_price_for_lot' = 0
    /\ cash' = <<>>
    /\ free_money' = 0
    /\ current_price' = 0
    /\ err' = NoValue

Init ==
    /\ now = NoTime
    /\ slept = 0
    /\ pc = "gate"
    /\ stocks \in SeqsUpTo(Tickers, MaxStocks)
    /\ \E pair \in PercentPairs :
          /\ profit_percent = pair[1]
          /\ stopp_loss_percent = pair[2]
    /\ instruments_cache = <<>>
    /\ shares_df = <<>>
    /\ money \in CashSets
    /\ portfolio = <<>>
    /\ validated_tickers = <<>>
    /\ stock_actions = <<>>
    /\ cur = [ticker |-> NoValue, action |-> NoValue]
    /\ figi = NoValue
    /\ last_price_for_lot = 0
    /\ cash = <<>>
    /\ free_money = 0
    /\ current_price = 0
    /\ err = NoValue
    /\ call = CallReset
    /\ lastCall = NoCall
    /\ sent = <<>>
    /\ attempts = 0
    /\ lastExit = "none"
    /\ run = NoRun

\* The return after the insufficient-capital error taking the scheduler's loop
\* down with it.
Return_ends_run(exit) ==
    /\ pc' = IF exit = "no_cash" THEN "done" ELSE "sleep"
    /\ lastExit' = exit
    /\ NoLocals

\* main returns normally: back in the scheduler's wrapper, before its sleep.
Return(exit) ==
    /\ pc' = "sleep"
    /\ lastExit' = exit
    /\ NoLocals

\* An exception leaves main: it propagates through the scheduler's wrapper,
\* which has no handler, and ends the process.
Escape ==
    /\ pc' = "crashed"
    /\ lastExit' = "escaped"
    /\ NoLocals

\* An exception inside main's try block that is neither NotFreeCacheForTrading
\* nor a position-not-available error: `except Exception as err`.
Caught(e) ==
    /\ pc' = "notify"
    /\ err' = e

\* One invocation of the wrapped function fn with arguments a and outcome o,
\* as the retry wrapper handles it: what becomes of the call in progress.
Wrapped(fn, a, o) ==
    LET w == connection_problems_decorator(o)
        n == [tries |-> call.tries + 1,
              fails |-> call.fails + (IF o.raised THEN 1 ELSE 0),
              args  |-> call.args \cup {a}]
    IN  IF w.kind = "continue"
        THEN /\ call' = n
             /\ lastCall' = NoCall
        ELSE /\ call' = CallReset
             /\ lastCall' = [fn |-> fn, tries |-> n.tries, fails |-> n.fails,
                             args |-> n.args,
                             ended |-> w.kind,
                             result |-> o.value, value |-> w.value]

\* The wrapper's loop goes round: nothing but the call in progress changes.
Retried == UNCHANGED <<pc, config, catalog, account, locals, history>>

Continues(o) == connection_problems_decorator(o).kind = "continue"
Returns(o)   == connection_problems_decorator(o).kind = "return"
Returned_value(o) == connection_problems_decorator(o).value

Failure == [raised |-> TRUE, value |-> "Exception"]
Success(v) == [raised |-> FALSE, value |-> v]

\* main.py: @repeat_trading_with_time_interval_decorator(minutes=5)
Minutes == 5
time_interval_kwargs == [minutes |-> Minutes]

\* datetime.timedelta(**kwargs).total_seconds()
total_seconds(kwargs) == kwargs.minutes * 60

\* utils.repeat_trading_with_time_interval_decorator: one pass of the loop up
\* to the call of func or to the sleep of the closed-market branch.
wrapper_iteration ==
    /\ pc = "gate"
    /\ lastCall' = NoCall
    /\ UNCHANGED run
    /\ \E t \in Times :
         /\ now' = t
         /\ slept' = 0
         /\ IF is_trading_time(t)
            THEN /\ pc' = "construct"
                 /\ sent' = <<>>
                 /\ attempts' = 0
                 /\ lastExit' = "running"
                 /\ UNCHANGED <<config, catalog, account, locals, call, err>>
            ELSE /\ pc' = "sleep"
                 /\ UNCHANGED <<config, catalog, account, locals, call, history>>

\* The wrapper leaving its loop after the sleep.
wrapper_sleep_break ==
    /\ pc = "sleep"
    /\ now' = NoTime
    /\ slept' = 0
    /\ UNCHANGED run
    /\ pc' = "done"
    /\ UNCHANGED <<config, catalog, account, locals, call, history>>
    /\ lastCall' = NoCall

\* The closed-market branch sleeping a second only.
wrapper_sleep_closed_short ==
    /\ pc = "sleep"
    /\ now' = NoTime
    /\ slept' = IF now = NoTime THEN total_seconds(time_interval_kwargs) ELSE 1
    /\ UNCHANGED run
    /\ pc' = "gate"
    /\ UNCHANGED <<config, catalog, account, locals, call, history>>
    /\ lastCall' = NoCall

\* time.sleep(...) followed by `continue`: the sleep after the call of func
\* (now = NoTime, the call has been made since the gate) or the sleep of the
\* closed-market branch.
wrapper_sleep ==
    /\ pc = "sleep"
    /\ now' = NoTime
    /\ slept' = IF now = NoTime
                THEN total_seconds(time_interval_kwargs)
                ELSE total_seconds(time_interval_kwargs)
    /\ UNCHANGED run
    /\ pc' = "gate"
    /\ UNCHANGED <<config, catalog, account, locals, call, history>>
    /\ lastCall' = NoCall

\* A construction that asks the brokerage for the catalog again although the
\* memo is filled.
TkBroker_init_reloads ==
    /\ pc = "construct"
    /\ now' = NoTime
    /\ slept' = 0
    /\ UNCHANGED run
    /\ instruments_cache # <<>>
    /\ \E c \in Catalogs :
          /\ instruments_cache' = <<c>>
          /\ shares_df' = c
    /\ pc' = "validate"
    /\ UNCHANGED <<config, account, locals, call, history>>
    /\ lastCall' = NoCall

\* TkBroker.__init__ -> get_instruments_df(token): lru_cache hit.
TkBroker_init_cached ==
    /\ pc = "construct"
    /\ now' = NoTime
    /\ slept' = 0
    /\ UNCHANGED run
    /\ instruments_cache # <<>>
    /\ shares_df' = instruments_cache[1]
    /\ pc' = "validate"
    /\ UNCHANGED <<config, instruments_cache, account, locals,
                   call, history>>
    /\ lastCall' = NoCall

\* TkBroker.__init__ -> get_instruments_df(token): cache miss, the wrapped
\* listing request.
get_instruments_df_call ==
    /\ pc = "construct"
    /\ now' = NoTime
    /\ slept' = 0
    /\ UNCHANGED run
    /\ instruments_cache = <<>>
    /\ LET Returned(v) ==
               /\ instruments_cache' = <<v>>
               /\ shares_df' = v
               /\ pc' = "validate"
               /\ UNCHANGED <<config, account, locals, history>>
           Propagated ==
               /\ Escape
               /\ UNCHANGED <<config, catalog, account, sent, attempts>>
           Step(o) ==
               /\ Wrapped("get_instruments_df", <<"token">>, o)
               /\ IF Continues(o) THEN Retried
                  ELSE IF Returns(o) THEN Returned(Returned_value(o))
                  ELSE Propagated
       IN  \/ /\ call.fails < MaxFails
              /\ Step(Failure)
           \/ \E c \in Catalogs :
                Step(Success(c))

\* main: validated_tickers = tk_broker.validate_tickers(strategy_settings.stocks)
main_validate ==
    /\ pc = "validate"
    /\ now' = NoTime
    /\ slept' = 0
    /\ UNCHANGED run
    /\ validated_tickers' = validate_tickers(shares_df, stocks)
    /\ pc' = "strategy"
    /\ UNCHANGED <<config, catalog, account, stock_actions, cur,
                   figi, last_price_for_lot, cash, free_money,
                   current_price, call, history>>
    /\ lastCall' = NoCall

\* main without the `if not stock_actions` test: the list goes to the loop
\* as it is.
main_strategy_no_empty_test ==
    /\ pc = "strategy"
    /\ now' = NoTime
    /\ slept' = 0
    /\ UNCHANGED run
    /\ lastCall' = NoCall
    /\ \E actions \in get_stock_actions(validated_tickers) :
         /\ stock_actions' = actions
         /\ pc' = "select"
         /\ UNCHANGED <<config, catalog, account, validated_tickers,
              cur, figi, last_price_for_lot, cash, free_money,
              current_price, call, history>>

\* main: stock_actions = recommendation_system.get_stock_actions(...), and the
\* `if not stock_actions: return` after it.
main_strategy ==
    /\ pc = "strategy"
    /\ now' = NoTime
    /\ slept' = 0
    /\ UNCHANGED run
    /\ lastCall' = NoCall
    /\ \E actions \in get_stock_actions(validated_tickers) :
         IF actions = <<>>
         THEN /\ Return("no_actions")
              /\ UNCHANGED <<config, catalog, account, call, sent, attempts>>
         ELSE /\ stock_actions' = actions
              /\ pc' = "select"
              /\ UNCHANGED <<config, catalog, account, validated_tickers,
                   cur, figi, last_price_for_lot, cash, free_money,
                   current_price, call, history>>

\* main: get_stock_actions raises (a missing model file, for one, or the
\* validation of StockAction(ticker=...) against schema.StockAction, whose
\* field is named `stock`); the call is outside main's try block.
main_strategy_raises ==
    /\ pc = "strategy"
    /\ now' = NoTime
    /\ slept' = 0
    /\ UNCHANGED run
    /\ Escape
    /\ UNCHANGED <<config, catalog, account, call, sent, attempts>>
    /\ lastCall' = NoCall

\* main: random.choice(stock_actions), the dispatch on its action and the
\* first statement of post_long_position / post_short_position.
main_select ==
    /\ pc = "select"
    /\ now' = NoTime
    /\ slept' = 0
    /\ UNCHANGED run
    /\ attempts < MaxAttempts
    /\ \E i \in 1..Len(stock_actions) :
         LET chosen == stock_actions[i]
             found  == get_figi_by_ticker(shares_df, chosen.ticker)
         IN  /\ cur' = chosen
             /\ attempts' = attempts + 1
             /\ IF found.raised
                THEN /\ Caught(found.value)
                     /\ UNCHANGED figi
                ELSE /\ figi' = found.value
                     /\ pc' = "get_last_price"
                     /\ UNCHANGED err
    /\ UNCHANGED <<config, catalog, account, validated_tickers,
                   stock_actions, last_price_for_lot, cash, free_money,
                   current_price, call, sent, lastExit>>
    /\ lastCall' = NoCall

\* An exception out of a wrapped call made inside main's try block.
PropagatedInTry ==
    /\ Caught("Exception")
    /\ UNCHANGED <<config, catalog, account, validated_tickers,
                   stock_actions, cur, figi, last_price_for_lot, cash,
                   free_money, current_price, sent, attempts, lastExit>>

\* The last-price call followed by the capital check on the free money kept
\* from the previous attempt of the cycle, when there is one.
get_last_price_call_keeps_free_money ==
    /\ pc = "get_last_price"
    /\ now' = NoTime
    /\ slept' = 0
    /\ UNCHANGED run
    /\ LET Returned(v) ==
               /\ last_price_for_lot' = get_last_price_for_lot(shares_df, figi, v)
               /\ pc' = IF cash # <<>> THEN "check" ELSE "get_positions"
               /\ UNCHANGED <<config, catalog, account, validated_tickers,
                              stock_actions, cur, figi, cash, free_money,
                              current_price, history>>
           Step(o) ==
               /\ Wrapped("get_last_price", <<figi>>, o)
               /\ IF Continues(o) THEN Retried
                  ELSE IF Returns(o) THEN Returned(Returned_value(o))
                  ELSE PropagatedInTry
       IN  \/ /\ call.fails < MaxFails
              /\ Step(Failure)
           \/ \E p \in Prices :
                Step(Success(p))

\* get_last_price_for_lot -> get_last_price(token, target, figi)
get_last_price_call ==
    /\ pc = "get_last_price"
    /\ now' = NoTime
    /\ slept' = 0
    /\ UNCHANGED run
    /\ LET Returned(v) ==
               /\ last_price_for_lot' = get_last_price_for_lot(shares_df, figi, v)
               /\ pc' = "get_positions"
               /\ UNCHANGED <<config, catalog, account, validated_tickers,
                              stock_actions, cur, figi, cash, free_money,
                              current_price, history>>
           Step(o) ==
               /\ Wrapped("get_last_price", <<figi>>, o)
               /\ IF Continues(o) THEN Retried
                  ELSE IF Returns(o) THEN Returned(Returned_value(o))
                  ELSE PropagatedInTry
       IN  \/ /\ call.fails < MaxFails
              /\ Step(Failure)
           \/ \E p \in Prices :
                Step(Success(p))

\* free_money_for_trading -> get_positions(token, target), and the early
\* `return Decimal(0)` when the response has no money entry.
get_positions_call ==
    /\ pc = "get_positions"
    /\ now' = NoTime
    /\ slept' = 0
    /\ UNCHANGED run
    /\ LET Returned(v) ==
               /\ cash' = v
               /\ IF v = <<>>
                  THEN /\ free_money' = free_money_for_trading(v, <<>>)
                       /\ pc' = "check"
                  ELSE /\ pc' = "get_portfolio"
                       /\ UNCHANGED free_money
               /\ UNCHANGED <<config, catalog, account, validated_tickers,
                              stock_actions, cur, figi, last_price_for_lot,
                              current_price, history>>
           Step(o) ==
               /\ Wrapped("get_positions", <<"token">>, o)
               /\ IF Continues(o) THEN Retried
                  ELSE IF Returns(o) THEN Returned(Returned_value(o))
                  ELSE PropagatedInTry
       IN  \/ /\ call.fails < MaxFails
              /\ Step(Failure)
           \/ Step(Success(money))

\* free_money_for_trading -> get_portfolio(token, target), the loop over the
\* positions and the returned sum.
get_portfolio_call ==
    /\ pc = "get_portfolio"
    /\ now' = NoTime
    /\ slept' = 0
    /\ UNCHANGED run
    /\ LET Returned(v) ==
               /\ free_money' = free_money_for_trading(cash, v)
               /\ pc' = "check"
               /\ UNCHANGED <<config, catalog, account, validated_tickers,
                              stock_actions, cur, figi, last_price_for_lot,
                              cash, current_price, history>>
           Step(o) ==
               /\ Wrapped("get_portfolio", <<"token">>, o)
               /\ IF Continues(o) THEN Retried
                  ELSE IF Returns(o) THEN Returned(Returned_value(o))
                  ELSE PropagatedInTry
       IN  \/ /\ call.fails < MaxFails
              /\ Step(Failure)
           \/ Step(Success(portfolio))

\* The capital check going on to the take-profit without the entry order.
check_money_skips_entry ==
    /\ pc = "check"
    /\ now' = NoTime
    /\ slept' = 0
    /\ UNCHANGED run
    /\ lastCall' = NoCall
    /\ IF NotEnoughMoney(free_money, last_price_for_lot)
       THEN /\ Return("no_cash")
            /\ UNCHANGED <<config, catalog, account, call, sent, attempts>>
       ELSE /\ pc' = "take_profit"
            /\ UNCHANGED <<config, catalog, account, locals, call, history>>

\* The capital check answering a shortage with `continue`: another signal is
\* chosen.
check_money_continues ==
    /\ pc = "check"
    /\ now' = NoTime
    /\ slept' = 0
    /\ UNCHANGED run
    /\ lastCall' = NoCall
    /\ IF NotEnoughMoney(free_money, last_price_for_lot)
       THEN /\ pc' = "select"
            /\ UNCHANGED <<config, catalog, account, locals, call, history>>
       ELSE /\ pc' = "market"
            /\ UNCHANGED <<config, catalog, account, locals, call, history>>

\* The capital check reporting the shortage and opening the position anyway.
check_money_only_reports ==
    /\ pc = "check"
    /\ now' = NoTime
    /\ slept' = 0
    /\ UNCHANGED run
    /\ lastCall' = NoCall
    /\ pc' = "market"
    /\ UNCHANGED <<config, catalog, account, locals, call, history>>

\* post_*_position: the capital check; NotFreeCacheForTrading is caught by
\* main, which prints and returns.
check_money ==
    /\ pc = "check"
    /\ now' = NoTime
    /\ slept' = 0
    /\ UNCHANGED run
    /\ lastCall' = NoCall
    /\ IF NotEnoughMoney(free_money, last_price_for_lot)
       THEN /\ Return("no_cash")
            /\ UNCHANGED <<config, catalog, account, call, sent, attempts>>
       ELSE /\ pc' = "market"
            /\ UNCHANGED <<config, catalog, account, locals, call, history>>

lot_of(df, f) == RowsWhereFigi(df, f)[1].lot

\* The numerators of take_profit_price and stop_loss_price of the position
\* being opened, by the direction of its entry.
take_profit_price(action, cp, pct) ==
    IF action = BUY THEN long_take_profit_price(cp, pct)
    ELSE short_take_profit_price(cp, pct)

stop_loss_price(action, cp, pct) ==
    IF action = BUY THEN long_stop_loss_price(cp, pct)
    ELSE short_stop_loss_price(cp, pct)

\* The price argument of post_*_take_profit / post_*_stop_loss.
take_profit_arg(action, cp, pct, mpi) ==
    quantize(take_profit_price(action, cp, pct), mpi,
             IF action = BUY THEN FloatNoise(pct) ELSE 0 - FloatNoise(pct))

stop_loss_arg(action, cp, pct, mpi) ==
    quantize(stop_loss_price(action, cp, pct), mpi,
             IF action = BUY THEN 0 - FloatNoise(pct) ELSE FloatNoise(pct))

\* StopOrderExpirationType.STOP_ORDER_EXPIRATION_TYPE_GOOD_TILL_CANCEL
GOOD_TILL_CANCEL == "GOOD_TILL_CANCEL"

\* The stop orders placed on the side of the entry itself.
stop_direction_same_side(action) == action

\* Direction of the stop orders of an entry: the opposite side.
stop_direction(action) == IF action = BUY THEN SELL ELSE BUY

\* byu_market / sell_market: the wrapped market order of one lot.  The
\* brokerage raises when the side is not available; when it accepts, the
\* order is filled and the account changes.  An invocation raises before the
\* brokerage took the order, or after it did (the response is lost).  On
\* return the caller computes the bracket prices and quantizes the
\* take-profit price (a zero increment raises there).
market_fn == IF cur.action = BUY THEN "byu_market" ELSE "sell_market"

\* client.orders.post_order of one lot as the brokerage takes it: the order is
\* filled at v.  free_change is what the fill does to the account's free money
\* (free_money_for_trading after it minus before it).
market_accepted(v) ==
    LET units == IF cur.action = BUY THEN lot_of(shares_df, figi)
                 ELSE 0 - lot_of(shares_df, figi)
        money_after     == <<money[1] - units * v>> \o Tail(money)
        portfolio_after == trade(portfolio, figi, units, v)
    IN  /\ money' = money_after
        /\ portfolio' = portfolio_after
        /\ sent' = Append(sent, [kind |-> "market", direction |-> cur.action,
                                 figi |-> figi, price |-> v, entry |-> v,
                                 attempt |-> attempts,
                                 free_change |->
                                    free_money_for_trading(money_after, portfolio_after)
                                      - free_money_for_trading(money, portfolio)])

market_call ==
    /\ pc = "market"
    /\ now' = NoTime
    /\ slept' = 0
    /\ UNCHANGED run
    /\ LET fn == market_fn
           mpi == min_price_increment_of(shares_df, figi)
           Returned(v) ==
               /\ current_price' = v
               /\ market_accepted(v)
               /\ IF take_profit_arg(cur.action, v, profit_percent, mpi).raised
                  THEN Caught(take_profit_arg(cur.action, v, profit_percent, mpi).value)
                  ELSE pc' = "take_profit" /\ UNCHANGED err
               /\ UNCHANGED <<config, catalog, validated_tickers,
                              stock_actions, cur, figi, last_price_for_lot,
                              cash, free_money, attempts, lastExit>>
           Step(o) ==
               /\ Wrapped(fn, <<figi>>, o)
               /\ IF Continues(o) THEN Retried
                  ELSE IF Returns(o) THEN Returned(Returned_value(o))
                  ELSE PropagatedInTry
       IN  \/ /\ call.fails < MaxFails
              /\ Step(Failure)
           \/ /\ side_available(shares_df, portfolio, figi, cur.action)
              /\ Step(Success(execution_price(figi)))

\* client.stop_orders.post_stop_order as the brokerage takes it.
stop_order_accepted(kind, price) ==
    sent' = Append(sent, [kind |-> kind,
                          direction |-> stop_direction(cur.action),
                          figi |-> figi, price |-> price,
                          entry |-> current_price,
                          expiration_type |-> GOOD_TILL_CANCEL,
                          attempt |-> attempts])

\* post_sell_take_profit / post_buy_take_profit: the wrapped stop order.
take_profit_fn ==
    IF cur.action = BUY THEN "post_sell_take_profit" ELSE "post_buy_take_profit"

take_profit_call ==
    /\ pc = "take_profit"
    /\ now' = NoTime
    /\ slept' = 0
    /\ UNCHANGED run
    /\ LET fn == take_profit_fn
           price == take_profit_arg(cur.action, current_price, profit_percent,
                                    min_price_increment_of(shares_df, figi)).value
           Returned(v) ==
               /\ stop_order_accepted("take_profit", price)
               /\ pc' = "stop_loss"
               /\ UNCHANGED <<config, catalog, account, locals, attempts,
                              lastExit, err>>
           Step(o) ==
               /\ Wrapped(fn, <<figi, price>>, o)
               /\ IF Continues(o) THEN Retried
                  ELSE IF Returns(o) THEN Returned(Returned_value(o))
                  ELSE PropagatedInTry
       IN  \/ /\ call.fails < MaxFails
              /\ Step(Failure)
           \/ Step(Success("PostStopOrderResponse"))

\* post_sell_stop_loss / post_buy_stop_loss: the wrapped stop order; after it
\* post_*_position returns and main's `while True` chooses again.
stop_loss_fn ==
    IF cur.action = BUY THEN "post_sell_stop_loss" ELSE "post_buy_stop_loss"

stop_loss_call ==
    /\ pc = "stop_loss"
    /\ now' = NoTime
    /\ slept' = 0
    /\ UNCHANGED run
    /\ LET fn == stop_loss_fn
           price == stop_loss_arg(cur.action, current_price, stopp_loss_percent,
                                  min_price_increment_of(shares_df, figi)).value
           Returned(v) ==
               /\ stop_order_accepted("stop_loss", price)
               /\ pc' = "select"
               /\ UNCHANGED <<config, catalog, account, locals, attempts,
                              lastExit, err>>
           Step(o) ==
               /\ Wrapped(fn, <<figi, price>>, o)
               /\ IF Continues(o) THEN Retried
                  ELSE IF Returns(o) THEN Returned(Returned_value(o))
                  ELSE PropagatedInTry
       IN  \/ /\ call.fails < MaxFails
              /\ Step(Failure)
           \/ Step(Success("PostStopOrderResponse"))

\* The handler of unexpected errors going on with the loop after the message.
main_notify_continues ==
    /\ pc = "notify"
    /\ now' = NoTime
    /\ slept' = 0
    /\ UNCHANGED run
    /\ pc' = "select"
    /\ err' = NoValue
    /\ UNCHANGED <<config, catalog, account, call, sent, attempts, lastExit,
                   validated_tickers, stock_actions, cur, figi,
                   last_price_for_lot, cash, free_money, current_price>>
    /\ lastCall' = NoCall

\* main: `except Exception as err`: send_message succeeds, then `return`.
main_notify ==
    /\ pc = "notify"
    /\ now' = NoTime
    /\ slept' = 0
    /\ UNCHANGED run
    /\ Return("error")
    /\ UNCHANGED <<config, catalog, account, call, sent, attempts>>
    /\ lastCall' = NoCall

\* main: send_message itself raises inside the handler; nothing catches it.
main_notify_raises ==
    /\ pc = "notify"
    /\ now' = NoTime
    /\ slept' = 0
    /\ UNCHANGED run
    /\ Escape
    /\ UNCHANGED <<config, catalog, account, call, sent, attempts>>
    /\ lastCall' = NoCall

Next ==
    \/ wrapper_iteration
    \/ wrapper_sleep
    \/ TkBroker_init_cached
    \/ get_instruments_df_call
    \/ main_validate
    \/ main_strategy
    \/ main_strategy_raises
    \/ main_select
    \/ get_last_price_call
    \/ get_positions_call
    \/ get_portfolio_call
    \/ check_money
    \/ market_call
    \/ take_profit_call
    \/ stop_loss_call
    \/ main_notify
    \/ main_notify_raises

Spec == Init /\ [][Next]_vars

\* ------------------------------------------- responses lost after acceptance
\* client.orders.post_order raises after the brokerage has taken the order
\* (the response is lost on the way back): the wrapper's `except Exception`
\* prints and its `while True` invokes post_order again with the same
\* arguments; post_*_position is still at the same statement.
market_call_lost_no_retry ==
    /\ pc = "market"
    /\ now' = NoTime
    /\ slept' = 0
    /\ UNCHANGED run
    /\ call.fails < MaxFails
    /\ side_available(shares_df, portfolio, figi, cur.action)
    /\ Wrapped(market_fn, <<figi>>, Failure)
    /\ market_accepted(execution_price(figi))
    /\ pc' = "take_profit"
    /\ current_price' = execution_price(figi)
    /\ UNCHANGED <<config, catalog, validated_tickers, stock_actions, cur,
                   figi, last_price_for_lot, cash, free_money, attempts,
                   lastExit, err>>

market_call_lost ==
    /\ pc = "market"
    /\ now' = NoTime
    /\ slept' = 0
    /\ UNCHANGED run
    /\ call.fails < MaxFails
    /\ side_available(shares_df, portfolio, figi, cur.action)
    /\ Wrapped(market_fn, <<figi>>, Failure)
    /\ market_accepted(execution_price(figi))
    /\ UNCHANGED <<pc, config, catalog, locals, attempts, lastExit, err>>

\* The same for client.stop_orders.post_stop_order of the take-profit leg.
take_profit_call_lost ==
    /\ pc = "take_profit"
    /\ now' = NoTime
    /\ slept' = 0
    /\ UNCHANGED run
    /\ call.fails < MaxFails
    /\ LET price == take_profit_arg(cur.action, current_price, profit_percent,
                                    min_price_increment_of(shares_df, figi)).value
       IN  /\ Wrapped(take_profit_fn, <<figi, price>>, Failure)
           /\ stop_order_accepted("take_profit", price)
    /\ UNCHANGED <<pc, config, catalog, account, locals, attempts, lastExit,
                   err>>

\* A stop-loss submission that failed sending the whole bracket again, from
\* the entry order.
stop_loss_call_lost_retries_bracket ==
    /\ pc = "stop_loss"
    /\ now' = NoTime
    /\ slept' = 0
    /\ UNCHANGED run
    /\ call.fails < MaxFails
    /\ LET price == stop_loss_arg(cur.action, current_price, stopp_loss_percent,
                                  min_price_increment_of(shares_df, figi)).value
       IN  /\ Wrapped(stop_loss_fn, <<figi, price>>, Failure)
           /\ stop_order_accepted("stop_loss", price)
    /\ pc' = "market"
    /\ UNCHANGED <<config, catalog, account, validated_tickers, stock_actions,
                   cur, figi, last_price_for_lot, cash, free_money,
                   current_price, attempts, lastExit, err>>

\* The same for client.stop_orders.post_stop_order of the stop-loss leg.
stop_loss_call_lost ==
    /\ pc = "stop_loss"
    /\ now' = NoTime
    /\ slept' = 0
    /\ UNCHANGED run
    /\ call.fails < MaxFails
    /\ LET price == stop_loss_arg(cur.action, current_price, stopp_loss_percent,
                                  min_price_increment_of(shares_df, figi)).value
       IN  /\ Wrapped(stop_loss_fn, <<figi, price>>, Failure)
           /\ stop_order_accepted("stop_loss", price)
    /\ UNCHANGED <<pc, config, catalog, account, locals, attempts, lastExit,
                   err>>

\* The cycle with a brokerage whose responses can be lost, for one ticker.
NextLost ==
    \/ Next
    \/ market_call_lost
    \/ take_profit_call_lost
    \/ stop_loss_call_lost

InitLost ==
    /\ Init
    /\ Len(stocks) = 1
    /\ profit_percent = 200
    /\ money = <<20300>>

SpecLost == InitLost /\ [][NextLost]_vars

\* ------------------------------------------------- strategies on their own
\* A strategy object called with any ticker list, apart from the cycle.

\* RSIRecommendationSystem().get_stock_actions(stocks)
rsi_get_stock_actions ==
    /\ run = NoRun
    /\ \E stocks_arg \in SeqsUpTo(Tickers, MaxStocks) :
         \E indicators \in Readings(RSIValues, Len(stocks_arg)) :
            run' = [system |-> "rsi", stocks |-> stocks_arg,
                    readings |-> indicators, inner |-> <<>>, trends |-> <<>>,
                    out |-> rsi_loop(stocks_arg, indicators, <<>>),
                    raised |-> NoValue]
    /\ UNCHANGED main_vars

\* RandomRecommendationSystem().get_stock_actions(stocks)
random_get_stock_actions ==
    /\ run = NoRun
    /\ \E stocks_arg \in SeqsUpTo(Tickers, MaxStocks) :
         \E choices \in Readings({BUY, SELL}, Len(stocks_arg)) :
            run' = [system |-> "random", stocks |-> stocks_arg,
                    readings |-> choices, inner |-> <<>>, trends |-> <<>>,
                    out |-> random_loop(stocks_arg, choices, <<>>),
                    raised |-> NoValue]
    /\ UNCHANGED main_vars

\* OnlyByTrendRecommendationSystem(RSIRecommendationSystem())
\*     .get_stock_actions(stocks)
only_by_trend_get_stock_actions ==
    /\ run = NoRun
    /\ \E stocks_arg \in SeqsUpTo(Tickers, MaxStocks) :
         \E indicators \in Readings(RSIValues, Len(stocks_arg)) :
            LET inner_actions == rsi_loop(stocks_arg, indicators, <<>>)
            IN  \E trends \in Readings(TrendClasses, Len(inner_actions)) :
                   run' = [system |-> "rsi_only_by_trend", stocks |-> stocks_arg,
                           readings |-> indicators, inner |-> inner_actions,
                           trends |-> trends,
                           out |-> only_by_trend_loop(inner_actions, trends, <<>>),
                           raised |-> NoValue]
    /\ UNCHANGED main_vars

\* LogisticModelRecommendationSystem().get_stock_actions(stocks)
logistic_get_stock_actions ==
    /\ run = NoRun
    /\ \E stocks_arg \in SeqsUpTo(Tickers, MaxStocks) :
         \E predicts \in Readings(ModelReadings, Len(stocks_arg)) :
            LET r == logistic_loop(stocks_arg, predicts, <<>>)
            IN  run' = [system |-> "logistic_model", stocks |-> stocks_arg,
                        readings |-> predicts, inner |-> <<>>, trends |-> <<>>,
                        out |-> IF r.raised THEN <<>> ELSE r.value,
                        raised |-> IF r.raised THEN r.value ELSE NoValue]
    /\ UNCHANGED main_vars

\* MovingAverageRecommendationSystem().get_stock_actions(stocks)
moving_average_get_stock_actions ==
    /\ run = NoRun
    /\ \E stocks_arg \in SeqsUpTo(Tickers, MaxStocks) :
         \E frames \in Readings(EmaFrames, Len(stocks_arg)) :
            LET r == moving_average_loop(stocks_arg, frames, <<>>)
            IN  run' = [system |-> "moving_average", stocks |-> stocks_arg,
                        readings |-> frames, inner |-> <<>>, trends |-> <<>>,
                        out |-> IF r.raised THEN <<>> ELSE r.value,
                        raised |-> IF r.raised THEN r.value ELSE NoValue]
    /\ UNCHANGED main_vars

\* StochasticRSIRecommendationSystem().get_stock_actions(stocks)
stochastic_rsi_get_stock_actions ==
    /\ run = NoRun
    /\ \E stocks_arg \in SeqsUpTo(Tickers, MaxStocks) :
         \E frames \in Readings(StochFrames, Len(stocks_arg)) :
            LET r == stochastic_rsi_loop(stocks_arg, frames, <<>>)
            IN  run' = [system |-> "stochastic_rsi", stocks |-> stocks_arg,
                        readings |-> frames, inner |-> <<>>, trends |-> <<>>,
                        out |-> IF r.raised THEN <<>> ELSE r.value,
                        raised |-> IF r.raised THEN r.value ELSE NoValue]
    /\ UNCHANGED main_vars

\* TradingViewRecommendationSystem().get_stock_actions(stocks)
trading_view_get_stock_actions ==
    /\ run = NoRun
    /\ \E stocks_arg \in SeqsUpTo(Tickers, MaxStocks) :
         \E summaries \in Readings(Recommendations, Len(stocks_arg)) :
            run' = [system |-> "trading_view", stocks |-> stocks_arg,
                    readings |-> summaries, inner |-> <<>>, trends |-> <<>>,
                    out |-> trading_view_loop(stocks_arg, summaries, <<>>),
                    raised |-> NoValue]
    /\ UNCHANGED main_vars

\* The caller drops the returned list.
strategy_returned ==
    /\ run # NoRun
    /\ run' = NoRun
    /\ UNCHANGED main_vars

NextStrategies ==
    \/ rsi_get_stock_actions
    \/ random_get_stock_actions
    \/ only_by_trend_get_stock_actions
    \/ logistic_get_stock_actions
    \/ moving_average_get_stock_actions
    \/ stochastic_rsi_get_stock_actions
    \/ trading_view_get_stock_actions
    \/ strategy_returned

\* No cycle is running: the process has only imported the strategies.
InitStrategies ==
    /\ Init
    /\ stocks = <<>>
    /\ profit_percent = 1
    /\ money = <<>>

SpecStrategies == InitStrategies /\ [][NextStrategies]_vars

\* ================================================================= claims
InCycle == pc \notin {"gate", "sleep", "crashed"}

\* C1: at the capital check the cycle ends with the insufficient-capital
\* error exactly when free capital <= (last price * lot size) * 1.01, and
\* when it does the cycle is over at once: no order is sent and no further
\* signal is chosen.
C1_CapitalCheck ==
    /\ [][pc = "check" =>
            /\ (pc' = "sleep" /\ lastExit' = "no_cash")
                  <=> (free_money * 100 <= last_price_for_lot * 101)
            /\ (free_money * 100 > last_price_for_lot * 101) => pc' = "market"
            /\ (pc' = "sleep") =>
                  /\ attempts' = attempts
                  /\ sent' = sent
                  /\ UNCHANGED account]_vars
    /\ [](lastExit = "no_cash" => ~InCycle)

\* A second signal was chosen after an opened position and failed the check;
\* the cycle ended there.
C1_Witness ==
    /\ lastExit = "no_cash"
    /\ attempts = 2
    /\ Len(sent) = 3
    /\ money # <<>>

\* C2: a wrapped call whose function raised N times and then succeeded
\* returns the function's value after exactly N + 1 invocations, all with the
\* same arguments, and no exception reaches the caller.
C2_RetryUntilSuccess ==
    /\ lastCall.ended # "raise"
    /\ lastCall.ended = "return" =>
          /\ lastCall.tries = lastCall.fails + 1
          /\ Cardinality(lastCall.args) = 1
          /\ lastCall.value = lastCall.result
    /\ call.tries = call.fails
    /\ pc = "notify" => err # "Exception"

C2_Witness ==
    /\ lastCall.ended = "return"
    /\ lastCall.fn = "get_last_price"
    /\ lastCall.fails >= 2
    /\ lastCall.tries = lastCall.fails + 1

\* C3: the decision function is invoked only at a gate that read a weekday
\* (Monday-Friday) and an hour in 07..22; a gate that read any other time
\* goes to the sleep without invoking it and without any effect.
C3_Gate ==
    /\ [][pc = "gate" =>
            /\ pc' = "construct"
                  => (now'.weekday \in 0..4 /\ now'.hour \in 7..22)
            /\ ~(now'.weekday \in 0..4 /\ now'.hour \in 7..22)
                  => /\ pc' = "sleep"
                     /\ UNCHANGED <<account, catalog, locals, history>>]_vars
    /\ [][(pc # "construct" /\ pc' = "construct") => pc = "gate"]_vars

C3_Witness ==
    /\ pc = "construct"
    /\ now.weekday = 4
    /\ now.hour = 22

\* C4: the scheduler loop has no exit of its own.  Every normal return of the
\* decision function and every closed-market gate leads to the sleep, every
\* sleep to a new gate, and the loop is over only after an exception escaped
\* the decision function.
C4_LoopNeverEnds ==
    /\ [](pc \in {"gate", "sleep", "crashed"} \/ InCycle)
    /\ [](pc = "crashed" <=> lastExit = "escaped")
    /\ [](pc = "sleep" => ENABLED wrapper_sleep)
    /\ [](pc = "gate" => ENABLED wrapper_iteration)
    /\ [][pc = "sleep" => pc' = "gate"]_vars
    /\ [][pc = "gate" => pc' \in {"construct", "sleep"}]_vars
    /\ [][(InCycle /\ ~InCycle') => pc' \in {"sleep", "crashed"}]_vars
    /\ [][(lastExit' \in {"no_actions", "no_cash", "error"} /\ lastExit' # lastExit)
              => pc' = "sleep"]_vars

\* A new iteration began after a cycle that ended on the capital check.
C4_Witness ==
    /\ pc = "gate"
    /\ lastExit = "no_cash"

\* C5: once an exception other than insufficient-capital or
\* position-side-unavailable occurred while a signal was executed, the run is
\* over: the scheduler invokes no further decision cycle.
C5_FatalEndsRun ==
    [][lastExit = "error" => pc' # "construct"]_vars

\* C6: when the brokerage refuses the entry order because the side is not
\* available, the chosen signal leaves the candidate set and the cycle either
\* goes on to another choice or, with no candidate left, returns; it does not
\* stay on the same order.
C6_UnavailableSideDropsSignal ==
    [][(pc = "market" /\ ~side_available(shares_df, portfolio, figi, cur.action))
          => \/ /\ pc' = "select"
                /\ stock_actions' = remove(stock_actions, cur)
             \/ /\ pc' = "sleep"
                /\ remove(stock_actions, cur) = <<>>]_vars

Present(df, ticker) == \E i \in 1..Len(df) : df[i].ticker = ticker

\* C7: on a loaded catalog, resolving an absent ticker fails with
\* TickerNotExists and resolving a present ticker gives the identifier of a
\* row of that ticker; the identifier a position was opened with is the one a
\* repeated call gives, and the loaded catalog never changes.
C7_Resolve ==
    /\ [](shares_df # <<>> =>
            \A t \in Tickers :
               LET r == get_figi_by_ticker(shares_df, t)
               IN  IF Present(shares_df, t)
                   THEN /\ ~r.raised
                        /\ \E i \in 1..Len(shares_df) :
                              /\ shares_df[i].ticker = t
                              /\ shares_df[i].figi = r.value
                   ELSE /\ r.raised
                        /\ r.value = "TickerNotExists")
    /\ [](figi # NoValue =>
            /\ ~get_figi_by_ticker(shares_df, cur.ticker).raised
            /\ get_figi_by_ticker(shares_df, cur.ticker).value = figi)
    /\ [][shares_df # <<>> => shares_df' = shares_df]_vars

\* The same ticker was resolved for a second position of one cycle.
C7_Witness ==
    /\ pc = "get_last_price"
    /\ attempts = 2
    /\ Len(sent) = 3
    /\ sent[1].figi = figi
    /\ Len(shares_df) = 3

\* C8: validate_tickers returns exactly the tickers of its input that are in
\* the catalog, in their input order (duplicates kept), raises nothing, and
\* leaves the input list as it was.
C8_Validate ==
    /\ [][pc = "validate" =>
            /\ pc' = "strategy"
            /\ validated_tickers' =
                  SelectSeq(stocks, LAMBDA t : Present(shares_df, t))
            /\ stocks' = stocks
            /\ UNCHANGED <<catalog, account, history>>]_vars
    /\ [](pc \in {"strategy", "select"} =>
            validated_tickers = SelectSeq(stocks, LAMBDA t : Present(shares_df, t)))

\* Two tickers of the catalog, given in the order opposite to the catalog's.
C8_Witness ==
    /\ pc = "strategy"
    /\ stocks = <<"GAZP", "SBER">>
    /\ validated_tickers = <<"GAZP", "SBER">>

\* Positions that could be added to the portfolio: shorts of two sizes and a
\* long.
ExtraPositions ==
    {[figi |-> "BBG9", quantity |-> q, current_price |-> p] :
        q \in {0 - 2, 0 - 1, 0, 3}, p \in {1, 10000}}

NoShort(positions) == \A i \in 1..Len(positions) : positions[i].quantity >= 0

\* C9: with the cash fixed, one more short position never raises the free
\* money and a deeper short lowers it at least as much; a long position leaves
\* it as it is; without any short the free money is the cash balance.  The
\* comparisons are made on the account of every capital check.
C9_FreeMoney ==
    /\ pc = "check" =>
         \A e \in ExtraPositions :
          LET more == free_money_for_trading(money, Append(portfolio, e))
              base == free_money_for_trading(money, portfolio)
          IN  /\ e.quantity < 0 => more <= base
              /\ e.quantity >= 0 => more = base
              /\ \A d \in ExtraPositions :
                    (d.current_price * d.quantity <= e.current_price * e.quantity
                       /\ d.quantity < 0 /\ e.quantity < 0)
                    => free_money_for_trading(money, Append(portfolio, d)) <= more
    /\ (NoShort(portfolio) /\ money # <<>>)
          => free_money_for_trading(money, portfolio) = money[1]
    /\ (NoShort(portfolio) /\ money = <<>>)
          => free_money_for_trading(money, portfolio) = 0
    /\ (pc = "check" /\ NoShort(portfolio) /\ cash # <<>>)
          => free_money = cash[1]

\* The check of a second attempt, made with an open short position.
C9_Witness ==
    /\ pc = "check"
    /\ \E i \in 1..Len(portfolio) : portfolio[i].quantity < 0
    /\ cash # <<>>
    /\ free_money < cash[1]

\* C10: every submitted take-profit lies strictly on the profit side of the
\* entry's execution price and every stop-loss strictly on the loss side:
\* above and below it for a long entry, below and above it for a short one.
C10_BracketSides ==
    \A i \in 1..Len(sent) :
       LET o == sent[i]
       IN  /\ (o.kind = "take_profit" /\ o.direction = SELL) => o.price > o.entry
           /\ (o.kind = "stop_loss"   /\ o.direction = SELL) => o.price < o.entry
           /\ (o.kind = "take_profit" /\ o.direction = BUY)  => o.price < o.entry
           /\ (o.kind = "stop_loss"   /\ o.direction = BUY)  => o.price > o.entry

\* The raw bracket prices (numerators over PctDen) of an entry filled at cp.
RawBracketPrices(cp, pct) ==
    {long_take_profit_price(cp, pct), long_stop_loss_price(cp, pct),
     short_take_profit_price(cp, pct), short_stop_loss_price(cp, pct)}

\* C11: bracket price quantization q(p) = round(p / tick) * tick is
\* idempotent, q(q(p)) = q(p), and q(p) = p for a price that is already an
\* integer multiple of the tick; checked for every tick of the catalogue a
\* broker object was built with on the raw bracket prices of every entry price
\* and percentage, and on every stop price actually submitted.  For a zero
\* tick q is undefined (the division raises).
C11_QuantizeIdempotent ==
    /\ pc = "validate" =>
         \A r \in 1..Len(shares_df), cp \in Prices, pct \in Percents :
          \A raw \in RawBracketPrices(cp, pct) :
             LET mpi == shares_df[r].min_price_increment
                 q1  == quantize(raw, mpi, FloatNoise(pct))
             IN  IF mpi = 0 THEN q1.raised
                 ELSE /\ ~q1.raised
                      /\ quantize(q1.value * PctDen, mpi, 0).value = q1.value
                      /\ cp % mpi = 0 => quantize(cp * PctDen, mpi, 0).value = cp
    /\ \A i \in 1..Len(sent) :
          sent[i].kind \in {"take_profit", "stop_loss"} =>
             quantize(sent[i].price * PctDen,
                      min_price_increment_of(shares_df, sent[i].figi), 0).value
                = sent[i].price

\* A submitted take-profit of a long entry that the rounding moved off the raw
\* price.
C11_Witness ==
    \E i \in 1..Len(sent) :
       /\ sent[i].kind = "take_profit"
       /\ sent[i].direction = SELL
       /\ sent[i].price * PctDen # long_take_profit_price(sent[i].entry, profit_percent)
       /\ sent[i].price # sent[i].entry

\* The raw price of a submitted stop order, from its entry: a stop order sold
\* (direction SELL) belongs to a long entry, one bought to a short entry.
RawPriceOf(o) ==
    IF o.kind = "take_profit"
    THEN take_profit_price(stop_direction(o.direction), o.entry, profit_percent)
    ELSE stop_loss_price(stop_direction(o.direction), o.entry, stopp_loss_percent)

\* C12: for a long entry filled at P the submitted take-profit is
\* quantize(P * (1 + tp/100)) and the stop-loss quantize(P * (1 - sl/100)),
\* with the signs inverted for a short entry; for P = 100, tp = 2, sl = 1 and
\* tick 0.05 they are exactly 102.00 and 99.00.
C12_BracketComputation ==
    \A i \in 1..Len(sent) :
       LET o   == sent[i]
           mpi == min_price_increment_of(shares_df, o.figi)
       IN  o.kind \in {"take_profit", "stop_loss"} =>
              /\ o.price = quantize(RawPriceOf(o), mpi, 0).value
              /\ (o.entry = 10000 /\ mpi = 5 /\ o.direction = SELL
                    /\ profit_percent = 200 /\ stopp_loss_percent = 100)
                 => o.price = (IF o.kind = "take_profit" THEN 10200 ELSE 9900)

\* The elements of seq at the positions in keep, among the first n, in order.
RECURSIVE Pick(_, _, _)
Pick(seq, keep, n) ==
    IF n = 0 THEN <<>>
    ELSE IF n \in keep THEN Append(Pick(seq, keep, n - 1), seq[n])
    ELSE Pick(seq, keep, n - 1)

\* The positions of the inner strategy's signals that agree with their trend.
AgreesWithTrend(inner_actions, trends) ==
    {i \in 1..Len(inner_actions) :
        \/ inner_actions[i].action = BUY  /\ trends[i] = UPTREND
        \/ inner_actions[i].action = SELL /\ trends[i] = DOWNTREND}

\* C13: the trend filter returns, of the signals of the inner strategy,
\* exactly the BUYs whose ticker is in an uptrend and the SELLs whose ticker is
\* in a downtrend; a BUY under a downtrend, a SELL under an uptrend and any
\* signal under another classification are dropped.
C13_TrendFilter ==
    run.system = "rsi_only_by_trend" =>
       /\ run.out = Pick(run.inner, AgreesWithTrend(run.inner, run.trends),
                         Len(run.inner))
       /\ \A i \in 1..Len(run.inner) :
             (run.trends[i] \notin {UPTREND, DOWNTREND}
                \/ (run.inner[i].action = BUY /\ run.trends[i] = DOWNTREND)
                \/ (run.inner[i].action = SELL /\ run.trends[i] = UPTREND))
             => i \notin AgreesWithTrend(run.inner, run.trends)
       /\ Len(run.out) = Cardinality(AgreesWithTrend(run.inner, run.trends))

\* A BUY kept and a SELL dropped under the same uptrend.
C13_Witness ==
    /\ run.system = "rsi_only_by_trend"
    /\ Len(run.inner) = 2
    /\ run.inner[1].action = BUY
    /\ run.inner[2].action = SELL
    /\ run.trends = <<UPTREND, UPTREND>>
    /\ run.out = <<run.inner[1]>>

\* a is b with some elements left out.
RECURSIVE IsSubsequence(_, _)
IsSubsequence(a, b) ==
    IF a = <<>> THEN TRUE
    ELSE IF b = <<>> THEN FALSE
    ELSE IF Head(a) = Head(b) THEN IsSubsequence(Tail(a), Tail(b))
    ELSE IsSubsequence(a, Tail(b))

TickersOf(actions) == [i \in 1..Len(actions) |-> actions[i].ticker]

\* C14: every strategy handles the tickers in the order given (the tickers of
\* the returned signals are in the order of the input) and returns an empty
\* list for an empty list.
C14_OrderAndEmpty ==
    /\ IsSubsequence(TickersOf(run.out), run.stocks)
    /\ (run.system # NoValue /\ run.stocks = <<>>) => run.out = <<>>

\* Two signals for two different tickers, in the input's order.
C14_Witness ==
    /\ run.system \in {"rsi", "random", "rsi_only_by_trend"}
    /\ Len(run.stocks) = 2
    /\ run.stocks[1] # run.stocks[2]
    /\ TickersOf(run.out) = run.stocks

InWrappedCall ==
    \/ pc \in {"get_last_price", "get_positions", "get_portfolio", "market",
               "take_profit", "stop_loss"}
    \/ pc = "construct" /\ instruments_cache = <<>>

\* C16: the retry wrapper has no retry limit.  A raising invocation is
\* followed by another invocation whatever the number of failures so far; it
\* returns nothing and raises nothing to the caller, and the cycle and the
\* scheduler stay where they are.  The call is left only by the return of an
\* invocation that succeeded.
C16_NoRetryLimit ==
    /\ [][call'.fails > call.fails =>
             /\ pc' = pc
             /\ UNCHANGED <<config, catalog, locals, attempts, lastExit, err>>
             /\ lastCall' = NoCall
             /\ call'.tries = call.tries + 1]_vars
    /\ [][(InWrappedCall /\ pc' # pc) =>
             /\ lastCall'.ended = "return"
             /\ lastCall'.tries = lastCall'.fails + 1
             /\ call' = CallReset]_vars
    /\ []((InWrappedCall /\ call.fails < MaxFails)
             => ENABLED (Next /\ call'.fails = call.fails + 1))
    /\ [](call.fails > 0 => InWrappedCall)

\* The entry order of a side that is not available has been refused twice and
\* is about to be sent again.
C16_Witness ==
    /\ pc = "market"
    /\ call.fails >= 2
    /\ call.tries = call.fails
    /\ ~side_available(shares_df, portfolio, figi, cur.action)

EntriesOf(f, a) ==
    {sent[i].attempt : i \in {j \in 1..Len(sent) :
        sent[j].kind = "market" /\ sent[j].figi = f /\ sent[j].direction = a}}

\* Signals of the cycle's list that ask for direction a on instrument f.
SignalsFor(f, a) ==
    {k \in 1..Len(stock_actions) :
        /\ stock_actions[k].action = a
        /\ get_figi_by_ticker(shares_df, stock_actions[k].ticker).value = f}

\* C18: a signal whose entry and bracket were submitted is not chosen again
\* in the same cycle: each signal opens at most one position per cycle, so a
\* cycle holds no more entry orders for an instrument and direction than its
\* list has signals asking for them.
C18_EachSignalOnce ==
    (InCycle /\ stock_actions # <<>>) =>
       \A i \in 1..Len(sent) :
          sent[i].kind = "market" =>
             Cardinality(EntriesOf(sent[i].figi, sent[i].direction))
                <= Cardinality(SignalsFor(sent[i].figi, sent[i].direction))


\* The thread of control is inside one of the order-submission calls.
InSubmission == pc \in {"market", "take_profit", "stop_loss"}

KindAt(p) == IF p = "market" THEN "market"
             ELSE IF p = "take_profit" THEN "take_profit" ELSE "stop_loss"

\* The orders of kind k the brokerage holds from the executor step a.
OrdersOf(k, a) == {i \in DOMAIN sent : sent[i].kind = k /\ sent[i].attempt = a}

\* C19: order submissions go through the same unbounded retry wrapper as
\* reads.  A submission that raises, the order taken by the brokerage or not,
\* is followed by another invocation with the same arguments while
\* post_*_position stays at the same statement; an order taken in a raising
\* invocation stays with the brokerage and the next one taken in the same call
\* is the same order again; the orders of one kind held from one executor step
\* beyond the first are as many as the raising invocations that were taken.
C19_DuplicateSubmission ==
    /\ [][(InSubmission /\ call'.fails > call.fails) =>
             /\ pc' = pc
             /\ lastCall' = NoCall
             /\ UNCHANGED <<config, catalog, locals, attempts, lastExit, err>>
             /\ call'.tries = call.tries + 1
             /\ Cardinality(call'.args) = 1
             /\ SubSeq(sent', 1, Len(sent)) = sent]_vars
    /\ [][(InSubmission /\ Len(sent') > Len(sent) /\ call.fails > 0
           /\ OrdersOf(KindAt(pc), attempts) # {}) =>
             \E i \in OrdersOf(KindAt(pc), attempts) :
                 /\ sent'[Len(sent')].direction = sent[i].direction
                 /\ sent'[Len(sent')].figi = sent[i].figi
                 /\ KindAt(pc) # "market" =>
                       sent'[Len(sent')].price = sent[i].price]_vars
    /\ [](InSubmission =>
             /\ Cardinality(OrdersOf(KindAt(pc), attempts)) <= call.fails
             /\ Cardinality(call.args) <= 1)
    /\ []((InSubmission /\ call.fails > 0
           /\ (pc = "market" =>
                  side_available(shares_df, portfolio, figi, cur.action)))
             => ENABLED (NextLost /\ pc' # pc /\ Len(sent') = Len(sent) + 1))

\* One executor step has ended with two entry orders and two stop-loss orders
\* at the brokerage.
C19_Witness ==
    /\ pc = "select"
    /\ lastCall.ended = "return"
    /\ lastCall.fails > 0
    /\ Cardinality(OrdersOf("market", attempts)) = 2
    /\ Cardinality(OrdersOf("stop_loss", attempts)) = 2
    /\ Cardinality(OrdersOf("take_profit", attempts)) = 1


\* C20: the catalog is fetched at most once for the token in the whole run.
\* A listing request returns only while the memo is empty, and its result is
\* both memoized and given to the broker object; a memo once filled never
\* changes; a construction that finds the memo filled makes no request and
\* takes the memoized catalog; past its construction every cycle works on the
\* memoized catalog.
C20_CatalogLoadedOnce ==
    /\ [][instruments_cache # <<>> =>
             instruments_cache' = instruments_cache]_vars
    /\ [][lastCall'.fn = "get_instruments_df" =>
             /\ instruments_cache = <<>>
             /\ lastCall'.ended = "return"
             /\ lastCall'.value \in Catalogs
             /\ instruments_cache' = <<lastCall'.value>>
             /\ shares_df' = lastCall'.value]_vars
    /\ [][(pc = "construct" /\ instruments_cache # <<>>) =>
             /\ call' = call
             /\ lastCall' = NoCall
             /\ pc' = "validate"
             /\ shares_df' = instruments_cache[1]]_vars
    /\ [](Len(instruments_cache) <= 1)
    /\ [](pc \notin {"gate", "sleep", "crashed", "construct"} =>
             /\ instruments_cache # <<>>
             /\ shares_df = instruments_cache[1])

\* A later cycle has built its broker object from the memo: no request was
\* made for it, and a position of an earlier cycle is in the account.
C20_Witness ==
    /\ pc = "validate"
    /\ lastCall = NoCall
    /\ instruments_cache # <<>>
    /\ shares_df = instruments_cache[1]
    /\ sent = <<>>
    /\ portfolio # <<>>


\* The passes of a strategy call whose reading satisfies neither failure.
PassesWith(good) == {i \in 1..Len(run.readings) : run.readings[i] \in good}

\* C21: in a call of the model-backed strategy where the model file of some
\* ticker is missing, nothing is raised and the list returned holds the
\* signals of the other tickers, as the loop gives them for those tickers
\* alone.
C21_MissingModelContained ==
    (run.system = "logistic_model"
       /\ \E i \in 1..Len(run.readings) : run.readings[i] = MissingFile)
    => /\ run.raised = NoValue
       /\ run.out = logistic_loop(
                       Pick(run.stocks, PassesWith(Predictions), Len(run.stocks)),
                       Pick(run.readings, PassesWith(Predictions), Len(run.stocks)),
                       <<>>).value

\* C22: in a call of a crossover strategy where the series of some ticker has
\* fewer than two samples, nothing is raised and the list returned holds the
\* signals of the tickers with two samples, as the loop gives them for those
\* tickers alone.
C22_ShortSeriesSkipped ==
    LET full  == {f \in EmaFrames \cup StochFrames : Len(f) >= TwoSamples}
        short == \E i \in 1..Len(run.readings) : Len(run.readings[i]) < TwoSamples
        rest  == Pick(run.stocks, PassesWith(full), Len(run.stocks))
        read  == Pick(run.readings, PassesWith(full), Len(run.stocks))
    IN  /\ (run.system = "moving_average" /\ short)
           => /\ run.raised = NoValue
              /\ run.out = moving_average_loop(rest, read, <<>>).value
        /\ (run.system = "stochastic_rsi" /\ short)
           => /\ run.raised = NoValue
              /\ run.out = stochastic_rsi_loop(rest, read, <<>>).value

C24_FatalReported ==
    [][(pc' = "crashed" /\ pc # "crashed") =>
          /\ pc = "notify"
          /\ err # NoValue]_vars


\* The sum of current_price * quantity over the positions at the indexes in S.
RECURSIVE ExposureOver(_, _)
ExposureOver(S, positions) ==
    IF S = {} THEN 0
    ELSE LET i == CHOOSE x \in S : TRUE
         IN  positions[i].current_price * positions[i].quantity
                + ExposureOver(S \ {i}, positions)

\* shortExposure: over exactly the positions with a negative quantity.
ShortExposure(positions) ==
    ExposureOver({i \in 1..Len(positions) : positions[i].quantity < 0}, positions)

\* C25: the free money computed for a capital check is the first cash entry
\* plus twice the short exposure of the portfolio, the short exposure being
\* the sum of current_price * quantity over exactly the positions of negative
\* quantity, and it is zero when the account has no cash entry; the same for
\* the account with any one more position, and for that portfolio with no
\* cash entry.
C25_FreeMoneyFormula ==
    pc = "check" =>
       /\ free_money = IF money = <<>> THEN 0
                       ELSE money[1] + ShortFactor * ShortExposure(portfolio)
       /\ \A e \in ExtraPositions :
             LET more == Append(portfolio, e)
             IN  /\ free_money_for_trading(<<>>, more) = 0
                 /\ money # <<>> =>
                       free_money_for_trading(money, more)
                          = money[1] + ShortFactor * ShortExposure(more)

\* A capital check on an account that holds a long and a short position.
C25_Witness ==
    /\ pc = "check"
    /\ money # <<>>
    /\ \E i \in 1..Len(portfolio) : portfolio[i].quantity < 0
    /\ \E i \in 1..Len(portfolio) : portfolio[i].quantity > 0
    /\ free_money = money[1] + ShortFactor * ShortExposure(portfolio)
    /\ free_money < money[1]


\* C26: every take-profit and stop-loss price the brokerage received is an
\* integer multiple of the (non-zero) minimum price increment of its
\* instrument; and so is the quantized value of every raw bracket price, for
\* every entry price, percentage and non-zero increment of the catalog in use.
C26_StopPricesOnTick ==
    /\ \A i \in 1..Len(sent) :
          sent[i].kind \in {"take_profit", "stop_loss"} =>
             LET mpi == min_price_increment_of(shares_df, sent[i].figi)
             IN  /\ mpi > 0
                 /\ sent[i].price % mpi = 0
    /\ pc = "take_profit" =>
          \A r \in 1..Len(shares_df), cp \in Prices, pct \in Percents :
             \A raw \in RawBracketPrices(cp, pct) :
                LET mpi == shares_df[r].min_price_increment
                IN  mpi # 0 =>
                       quantize(raw, mpi, FloatNoise(pct)).value % mpi = 0

\* The stop-loss of a short entry, submitted on a tick coarser than the
\* hundredth and off its raw price.
C26_Witness ==
    \E i \in 1..Len(sent) :
       /\ sent[i].kind = "stop_loss"
       /\ sent[i].direction = BUY
       /\ min_price_increment_of(shares_df, sent[i].figi) > 1
       /\ sent[i].price % min_price_increment_of(shares_df, sent[i].figi) = 0
       /\ sent[i].price * PctDen
             # short_stop_loss_price(sent[i].entry, stopp_loss_percent)


\* The entry orders of the executor step a that precede the i-th request.
EntriesBefore(i, a) ==
    {j \in 1..(i - 1) : sent[j].kind = "market" /\ sent[j].attempt = a}

\* C27: the order submitted for a BUY signal is a market BUY and its two stop
\* orders are SELL; for a SELL signal a market SELL and two BUY stop orders.
\* Every stop order is good-till-cancel, follows an entry order of its own
\* step on the same instrument, and has the direction opposite to that entry.
C27_Directions ==
    /\ [][Len(sent') > Len(sent) =>
             LET o == sent'[Len(sent')]
             IN  /\ cur.action \in {BUY, SELL}
                 /\ pc = "market" =>
                       /\ o.kind = "market"
                       /\ o.direction = cur.action
                 /\ pc \in {"take_profit", "stop_loss"} =>
                       /\ o.kind = pc
                       /\ o.direction = (IF cur.action = BUY THEN SELL ELSE BUY)
                       /\ o.expiration_type = GOOD_TILL_CANCEL]_vars
    /\ [](\A i \in 1..Len(sent) :
             sent[i].kind \in {"take_profit", "stop_loss"} =>
                /\ sent[i].expiration_type = GOOD_TILL_CANCEL
                /\ EntriesBefore(i, sent[i].attempt) # {}
                /\ \A j \in EntriesBefore(i, sent[i].attempt) :
                      /\ sent[j].figi = sent[i].figi
                      /\ sent[j].direction # sent[i].direction
                      /\ {sent[j].direction, sent[i].direction} = {BUY, SELL})

\* A SELL signal executed in full: a market SELL, then a BUY take-profit and a
\* BUY stop-loss.
C27_Witness ==
    /\ pc = "select"
    /\ Len(sent) = 3
    /\ cur.action = SELL
    /\ sent[1].kind = "market" /\ sent[1].direction = SELL
    /\ sent[2].kind = "take_profit" /\ sent[2].direction = BUY
    /\ sent[3].kind = "stop_loss" /\ sent[3].direction = BUY


\* The requests of kind k of the executor step a that precede the i-th.
KindBefore(k, i, a) ==
    {j \in 1..(i - 1) : sent[j].kind = k /\ sent[j].attempt = a}

\* C28: within one executed signal the capital check comes first, then the
\* market entry, then the take-profit, then the stop-loss.  The entry is
\* submitted only from a check that passed; the take-profit call begins only
\* on the return of the entry call, the stop-loss call only on the return of
\* the take-profit call; every stop order the brokerage holds follows the
\* entry of its step, and every stop-loss follows the take-profit of its step.
C28_Ordering ==
    /\ [][(pc' = "market" /\ pc # "market") =>
             /\ pc = "check"
             /\ ~NotEnoughMoney(free_money, last_price_for_lot)
             /\ OrdersOf("market", attempts) = {}]_vars
    /\ [][(pc' = "take_profit" /\ pc # "take_profit") =>
             /\ pc = "market"
             /\ lastCall'.ended = "return"
             /\ lastCall'.fn \in {"byu_market", "sell_market"}
             /\ sent'[Len(sent')].kind = "market"
             /\ current_price' = sent'[Len(sent')].price]_vars
    /\ [][(pc' = "stop_loss" /\ pc # "stop_loss") =>
             /\ pc = "take_profit"
             /\ lastCall'.ended = "return"
             /\ lastCall'.fn \in {"post_sell_take_profit", "post_buy_take_profit"}
             /\ sent'[Len(sent')].kind = "take_profit"]_vars
    /\ [][(Len(sent') > Len(sent) /\ sent'[Len(sent')].kind = "stop_loss") =>
             pc = "stop_loss"]_vars
    /\ [](\A i \in 1..Len(sent) :
             /\ sent[i].kind \in {"take_profit", "stop_loss"} =>
                   KindBefore("market", i, sent[i].attempt) # {}
             /\ sent[i].kind = "stop_loss" =>
                   KindBefore("take_profit", i, sent[i].attempt) # {}
             /\ sent[i].kind = "market" =>
                   KindBefore("take_profit", i, sent[i].attempt) = {})

\* The take-profit call has just returned: the stop-loss is next, after the
\* entry and the take-profit of the same step.
C28_Witness ==
    /\ pc = "stop_loss"
    /\ lastCall.ended = "return"
    /\ lastCall.fn = "post_sell_take_profit"
    /\ attempts = 2
    /\ Len(sent) = 5
    /\ sent[4].kind = "market"
    /\ sent[5].kind = "take_profit"


\* How many requests of kind k the brokerage holds in s from the step a.
CountIn(s, k, a) ==
    Cardinality({i \in 1..Len(s) : s[i].kind = k /\ s[i].attempt = a})

\* C29: the bracket is not retried as a unit.  An invocation that raises in
\* the stop-loss call is followed by the stop-loss call alone: the thread of
\* control stays at that call, the entry orders and take-profit orders of the
\* step are as many as before, and the account and the execution price are
\* untouched; an invocation that raises in the take-profit call leaves the
\* entry orders as they are.  From the moment the entry call has returned, no
\* entry order is added for the step, and from the return of the take-profit
\* call no take-profit order.
C29_LegsRetriedAlone ==
    /\ [][(pc = "stop_loss" /\ call'.fails > call.fails) =>
             /\ pc' = "stop_loss"
             /\ CountIn(sent', "market", attempts) = CountIn(sent, "market", attempts)
             /\ CountIn(sent', "take_profit", attempts)
                   = CountIn(sent, "take_profit", attempts)
             /\ UNCHANGED <<account, current_price, attempts, cur, figi>>]_vars
    /\ [][(pc = "take_profit" /\ call'.fails > call.fails) =>
             /\ pc' = "take_profit"
             /\ CountIn(sent', "market", attempts) = CountIn(sent, "market", attempts)
             /\ UNCHANGED <<account, current_price, attempts, cur, figi>>]_vars
    /\ [][(pc \in {"take_profit", "stop_loss"} /\ attempts' = attempts) =>
             /\ CountIn(sent', "market", attempts) = CountIn(sent, "market", attempts)
             /\ pc' # "market"]_vars
    /\ [][(pc = "stop_loss" /\ attempts' = attempts) =>
             /\ CountIn(sent', "take_profit", attempts)
                   = CountIn(sent, "take_profit", attempts)
             /\ pc' # "take_profit"]_vars

\* The stop-loss call has raised twice, once after the brokerage took the
\* order: the step still has one entry order and one take-profit order.
C29_Witness ==
    /\ pc = "stop_loss"
    /\ call.fails = 2
    /\ CountIn(sent, "market", attempts) = 1
    /\ CountIn(sent, "take_profit", attempts) = 1
    /\ CountIn(sent, "stop_loss", attempts) = 1


\* C30: the free money is fetched anew for every capital check.  A check is
\* reached only on the return of get_positions (no cash entry) or of
\* get_portfolio, called for this attempt after its last-price call; what the
\* check holds is the brokerage's cash and portfolio as they are then, the
\* fills of the earlier entries of the cycle included.
C30_FreeMoneyFetchedAnew ==
    /\ [][(pc' = "check" /\ pc # "check") =>
             /\ pc \in {"get_positions", "get_portfolio"}
             /\ lastCall'.ended = "return"
             /\ lastCall'.fn = pc
             /\ pc = "get_positions" => (lastCall'.value = <<>> /\ money = <<>>)
             /\ pc = "get_portfolio" => lastCall'.value = portfolio]_vars
    /\ [][(pc' = "get_portfolio" /\ pc # "get_portfolio") =>
             /\ pc = "get_positions"
             /\ lastCall'.fn = "get_positions"
             /\ lastCall'.ended = "return"
             /\ lastCall'.value = money
             /\ cash' = money]_vars
    /\ [][(pc' = "get_positions" /\ pc # "get_positions") =>
             /\ pc = "get_last_price"
             /\ lastCall'.fn = "get_last_price"]_vars
    /\ [][(pc' = "market" /\ pc # "market") => pc = "check"]_vars
    /\ [](pc = "check" =>
             /\ cash = money
             /\ free_money = free_money_for_trading(money, portfolio)
             /\ \A i \in 1..Len(sent) :
                   sent[i].kind = "market" =>
                      \E j \in 1..Len(portfolio) :
                         portfolio[j].figi = sent[i].figi)

\* The check of the second attempt of a cycle sees the cash left by the entry
\* bought in the first.
C30_Witness ==
    /\ pc = "check"
    /\ attempts = 2
    /\ Len(sent) = 3
    /\ sent[1].direction = BUY
    /\ cash # <<>>
    /\ cash[1] = 20300 - sent[1].price
    /\ free_money = cash[1]


\* ------------------------------------------------------------------ C31
\* C31: the scheduler is one thread of control.  A pass of its loop leaves
\* the gate either into a decision cycle or into the sleep of the closed
\* market; a decision cycle begins only at the gate, so no two cycles overlap;
\* the sleep is reached only from the closed gate or from a cycle that has
\* returned; every pass sleeps exactly once before the next pass begins, and
\* both sleeps last the same interval, timedelta(minutes=5).total_seconds().
C31_SingleThreadOneSleep ==
    [][ /\ (pc = "gate" => pc' \in {"construct", "sleep"})
        /\ (pc # "construct" /\ pc' = "construct"
              => pc = "gate" /\ is_trading_time(now'))
        /\ (pc # "sleep" /\ pc' = "sleep"
              => \/ pc = "gate" /\ ~is_trading_time(now')
                 \/ InCycle /\ lastExit' \in {"no_actions", "no_cash", "error"})
        /\ (pc = "sleep"
              => pc' = "gate" /\ slept' = total_seconds(time_interval_kwargs))
        /\ (pc' = "gate" => pc = "sleep")
        /\ (pc # "sleep" => slept' = 0) ]_vars

\* A pass that ran a decision cycle to its return and then slept.
C31_Witness ==
    /\ pc = "gate"
    /\ slept = total_seconds(time_interval_kwargs)
    /\ lastExit = "no_cash"

\* ------------------------------------------------------------------ C32
\* The signals of a returned list, as a set.
SignalSet(actions) == {actions[i] : i \in 1..Len(actions)}

\* The passes of a strategy call that handled the ticker t.
PassesOf(t) == {i \in 1..Len(run.stocks) : run.stocks[i] = t}

CrossedUp(f) ==
    /\ Len(f) >= 2
    /\ f[Len(f)].ema_short > f[Len(f)].ema_long
    /\ ~ (f[Len(f) - 1].ema_short > f[Len(f) - 1].ema_long)

\* The short average is below the long one at the latest sample and was not
\* below it at the sample before.
CrossedDown(f) ==
    /\ Len(f) >= 2
    /\ f[Len(f)].ema_short < f[Len(f)].ema_long
    /\ ~ (f[Len(f) - 1].ema_short < f[Len(f) - 1].ema_long)

C34_EmptyListEndsCycle ==
    /\ [][pc = "strategy" =>
            /\ pc' \in {"select", "sleep", "crashed"}
            /\ pc' = "select" => stock_actions' # <<>>
            /\ pc' = "sleep" =>
                 /\ lastExit' = "no_actions"
                 /\ stock_actions' = <<>>
                 /\ lastCall' = NoCall
                 /\ call' = call
                 /\ sent' = sent
                 /\ attempts' = attempts
                 /\ UNCHANGED account]_vars
    /\ [][lastExit' = "no_actions" /\ lastExit # "no_actions"
            => pc = "strategy"]_vars
    /\ [](lastExit = "no_actions" =>
            /\ pc \in {"sleep", "gate"}
            /\ sent = <<>>
            /\ attempts = 0
            /\ last_price_for_lot = 0
            /\ free_money = 0)

\* A cycle that validated two tickers, got no signal for them and ended.
C34_Witness ==
    /\ pc = "sleep"
    /\ lastExit = "no_actions"
    /\ Len(stocks) = 2
    /\ sent = <<>>
    /\ money # <<>>

\* ------------------------------------------------------------------ C35
\* C35: the attempt whose capital check fails submits nothing.  The failing
\* check makes no request, sends no order and leaves the account as it is,
\* and the cycle is over with it; every order that reaches the brokerage
\* belongs to an attempt whose check passed; and the orders of a cycle ended
\* by a failed check are the entry, take-profit and stop-loss of the attempts
\* before the failing one.
C35_FailedCheckSubmitsNothing ==
    /\ [][(pc = "check" /\ free_money * 100 <= last_price_for_lot * 101) =>
            /\ ~InCycle'
            /\ lastCall' = NoCall
            /\ call' = call
            /\ sent' = sent
            /\ UNCHANGED account]_vars
    /\ [][sent' # sent /\ sent' # <<>> =>
            /\ pc \in {"market", "take_profit", "stop_loss"}
            /\ free_money * 100 > last_price_for_lot * 101
            /\ sent' = Append(sent, sent'[Len(sent')])
            /\ sent'[Len(sent')].attempt = attempts]_vars
    /\ [](lastExit = "no_cash" =>
            /\ Len(sent) = 3 * (attempts - 1)
            /\ \A i \in 1..Len(sent) : sent[i].attempt < attempts)

\* A cycle whose second attempt failed the check after the first one had
\* sent its three orders.
C35_Witness ==
    /\ pc = "sleep"
    /\ lastExit = "no_cash"
    /\ attempts = 2
    /\ Len(sent) = 3
    /\ \A i \in 1..Len(sent) : sent[i].attempt = 1

\* ------------------------------------------------------------------ C36
\* The lot prices of the catalog in use, and a free lot.
LotPrices ==
    {0} \cup {get_last_price_for_lot(shares_df, shares_df[r].figi, p) :
                 r \in 1..Len(shares_df), p \in Prices}

\* C36: on an account that shows no cash entry the free money of a capital
\* check is zero and the check fails for every lot price from zero up, so the
\* first attempt of a cycle is its last: the cycle never reaches an order
\* call, nothing is sent and no position appears, whatever the length of the
\* signal list.
C36_NoCashEntryNoOrder ==
    money = <<>> =>
      /\ sent = <<>>
      /\ portfolio = <<>>
      /\ attempts <= 1
      /\ pc \notin {"market", "take_profit", "stop_loss"}
      /\ (attempts = 1 /\ ~InCycle) => lastExit \in {"no_cash", "error", "escaped"}
      /\ pc = "check" =>
           /\ free_money = 0
           /\ last_price_for_lot >= 0
           /\ NotEnoughMoney(free_money, last_price_for_lot)
           /\ \A p \in LotPrices : NotEnoughMoney(free_money, p)

\* The capital check of the first attempt of a cycle with two signals, on an
\* account without a cash entry.
C36_Witness ==
    /\ money = <<>>
    /\ pc = "check"
    /\ Len(stock_actions) = 2
    /\ attempts = 1
    /\ last_price_for_lot > 0

\* ------------------------------------------------------------------ C37
\* The tickers of a list, as a set.
TickerSet(tickers) == {tickers[i] : i \in 1..Len(tickers)}

\* C37: every signal a strategy returns, and every signal the inner strategy
\* hands to the trend filter, carries a ticker of the list the strategy was
\* called with.  Hence, for a catalog that validates every ticker of that
\* list, get_figi_by_ticker resolves the ticker of every returned signal:
\* TickerNotExists is not raised for it.
C37_SignalTickersFromInput ==
    /\ \A i \in 1..Len(run.out) : run.out[i].ticker \in TickerSet(run.stocks)
    /\ \A i \in 1..Len(run.inner) : run.inner[i].ticker \in TickerSet(run.stocks)
    /\ \A df \in Catalogs :
         validate_tickers(df, run.stocks) = run.stocks =>
            \A i \in 1..Len(run.out) :
               /\ ~get_figi_by_ticker(df, run.out[i].ticker).raised
               /\ get_figi_by_ticker(df, run.out[i].ticker).value
                     \in {df[r].figi : r \in 1..Len(df)}

\* The trend filter returned a signal for the second of two validated
\* tickers, while a list with an unknown ticker would not be validated.
C37_Witness ==
    /\ run.system = "rsi_only_by_trend"
    /\ Len(run.stocks) = 2
    /\ validate_tickers(CatalogB, run.stocks) = run.stocks
    /\ validate_tickers(CatalogB, <<"XXXX">>) = <<>>
    /\ Len(run.out) = 1
    /\ run.out[1].ticker = run.stocks[2]
    /\ run.stocks[2] # run.stocks[1]

\* ------------------------------------------------------------------ C38
\* C38: the trend filter works on the list its inner strategy returns for the
\* ticker list as given, read once per ticker.  What it returns is a
\* subsequence of that list: the same signal records, in the same order, none
\* added and none altered; when every inner signal agrees with its trend the
\* inner list comes back unchanged, and when none does the result is empty.
C38_FilterIsSubsequence ==
    run.system = "rsi_only_by_trend" =>
       /\ Len(run.readings) = Len(run.stocks)
       /\ run.inner = rsi_loop(run.stocks, run.readings, <<>>)
       /\ Len(run.trends) = Len(run.inner)
       /\ IsSubsequence(run.out, run.inner)
       /\ SignalSet(run.out) \subseteq SignalSet(run.inner)
       /\ Len(run.out) <= Len(run.inner)
       /\ AgreesWithTrend(run.inner, run.trends) = 1..Len(run.inner)
             => run.out = run.inner
       /\ AgreesWithTrend(run.inner, run.trends) = {} => run.out = <<>>

\* Two inner signals of different actions, both agreeing with their trends,
\* came back as they were.
C38_Witness ==
    /\ run.system = "rsi_only_by_trend"
    /\ Len(run.inner) = 2
    /\ run.inner[1].action # run.inner[2].action
    /\ AgreesWithTrend(run.inner, run.trends) = {1, 2}
    /\ run.out = run.inner

\* ------------------------------------------------------------------ C39
\* C39: within a cycle the candidate list never grows, and each refusal of an
\* entry order for an unavailable side takes the chosen signal, and only it,
\* out of the list; with the last candidate refused the cycle returns
\* normally, so a cycle in which every attempt is refused makes as many
\* attempts as it had signals.
C39_RefusalRemovesCandidate ==
    /\ [][(InCycle /\ InCycle' /\ stock_actions # <<>>)
             => Len(stock_actions') <= Len(stock_actions)]_vars
    /\ [][(pc = "market"
             /\ ~side_available(shares_df, portfolio, figi, cur.action))
           => /\ Len(stock_actions') = Len(stock_actions) - 1
              /\ stock_actions' = remove(stock_actions, cur)
              /\ (stock_actions' = <<>> => ~InCycle' /\ pc' # "crashed")
              /\ attempts' = attempts]_vars

\* ------------------------------------------------------------------ C40
\* The process as it is scheduled: one thread that takes its next step
\* whenever it has one (no step of the loops waits on anything but the call it
\* is making), on an account with cash and a configuration that names two
\* listed shares.
InitLive ==
    /\ Init
    /\ money = <<20300>>
    /\ profit_percent = 200
    /\ Len(stocks) = 2
    /\ \A i \in 1..Len(stocks) : stocks[i] \in {"SBER", "GAZP"}

\* Every step of the thread moves its position or the count of the call it
\* is retrying.
progress == <<pc, call.tries>>

SpecLive == InitLive /\ [][Next]_vars /\ WF_progress(Next)

\* Every entry order of the cycle lowered the account's free money by a
\* currency unit at least.
EntriesReduceFreeMoney ==
    \A i \in 1..Len(sent) :
       sent[i].kind = "market" => sent[i].free_change <= 0 - 100

\* No entry order is before a brokerage that will never take it.
EntryCanSucceed ==
    pc = "market" => side_available(shares_df, portfolio, figi, cur.action)

\* C40: in a run where every entry order is one the brokerage takes and
\* every filled entry lowers free money by a fixed positive amount, every
\* decision cycle that has begun comes to its end: by the empty list, the
\* failed capital check, an error reported or an error escaping.
C40_CycleTerminates ==
    [](EntriesReduceFreeMoney /\ EntryCanSucceed) => (InCycle ~> ~InCycle)

\* A cycle that opened two positions, each lowering free money, and ended on
\* the capital check of its third attempt.
C40_Witness ==
    /\ lastExit = "no_cash"
    /\ attempts = 3
    /\ Len(sent) = 6
    /\ EntriesReduceFreeMoney
    /\ pc = "sleep"

====
